---------------------------- MODULE Spec2Model ----------------------------
(***************************************************************************)
(* Model of the rule-based immigration timeline generator and risk         *)
(* analyzer of visapath (backend/app/services/timeline_generator.py,       *)
(* backend/app/services/risk_analyzer.py and the rule tables under         *)
(* backend/app/data/).                                                     *)
(*                                                                         *)
(* A datetime.date is its proleptic Gregorian ordinal (date.toordinal()).  *)
(* The string date.isoformat() returns, "YYYY-MM-DD", is the tuple of its  *)
(* three zero-padded fields <<y, m, d>>; comparing two such strings is     *)
(* comparing the tuples field by field (IsoLess).  The empty tuple <<>> is *)
(* the empty string / None of an optional date field.  The free text of an *)
(* event or a risk (title, description, action_items, message,             *)
(* recommendation) is not modelled.                                        *)
(*                                                                         *)
(* The service layer around them (the AI timeline generator's retry loop,  *)
(* the AI request tracker, POST /generate-timeline and the auth rate       *)
(* limiter) is modelled further down, each part with its own               *)
(* specification; time.time() is a whole number of seconds.                *)
(***************************************************************************)
EXTENDS Integers, Sequences, FiniteSets, TLC

VARIABLES
    today,        \* the value date.today() returns during the calls
    user_input,   \* the profile dict handed to both functions
    generated,    \* generate_timeline has returned
    events,       \* the list generate_timeline returned
    analyzed,     \* analyze_risks has returned
    risks,        \* the list analyze_risks returned
    args,         \* the arguments of a direct call of one of the helper functions
    result,       \* what that call returned, "pending" before it returns
    history,      \* the calls made so far: function, arguments and what came back
    now,                \* time.time(), in whole seconds
    ai_hits,            \* ai_rate_limit._hits["global"]: times of recorded AI requests
    _exhausted_until,   \* ai_rate_limit._exhausted_until
    ai_status,          \* what the last get_ai_rate_status / check_ai_rate_limit gave
    ai_marks,           \* every mark_exhausted call so far: time and cooldown
    ai_call,            \* the generate_ai_timeline call in progress
    credit_calls,       \* increment_credits_used(user_id) calls that returned, per user id
    requests,           \* the create_timeline requests, per request id
    other_requests,     \* the chat and tax_guide requests, per request id
    auth_hits,          \* rate_limit._hits: per client IP, times of accepted calls
    auth_calls          \* every rate_limit_auth call so far: ip, time, outcome

\* the state of the timeline generator and risk analyzer calls
core_vars == <<today, user_input, generated, events, analyzed, risks, args, result, history>>

\* the state of the service layer around them
limiter_vars == <<now, ai_hits, _exhausted_until, ai_status, ai_marks>>

route_vars == <<credit_calls, requests, other_requests>>

auth_vars == <<auth_hits, auth_calls>>

svc_vars == <<limiter_vars, ai_call, route_vars, auth_vars>>

vars == <<core_vars, svc_vars>>

\* the service layer at server start, with no call made
ServiceIdle ==
    /\ now = 0
    /\ ai_hits = <<>>
    /\ _exhausted_until = 0
    /\ ai_status = <<>>
    /\ ai_marks = <<>>
    /\ ai_call = <<>>
    /\ credit_calls = <<>>
    /\ requests = <<>>
    /\ other_requests = <<>>
    /\ auth_hits = <<>>
    /\ auth_calls = <<>>

\* no call of the generator or the analyzer under way
CoreIdle ==
    /\ today = 0
    /\ user_input = <<>>
    /\ generated = FALSE
    /\ events = <<>>
    /\ analyzed = FALSE
    /\ risks = <<>>
    /\ args = <<>>
    /\ result = "pending"
    /\ history = <<>>

---------------------------------------------------------------------------
(* Rule constants: backend/app/data/immigration_rules.py                   *)

OPT_apply_before_graduation_days == 90
OPT_apply_after_graduation_days == 60
OPT_unemployment_limit_days == 90
STEM_OPT_unemployment_limit_days == 150
STEM_OPT_apply_before_opt_expires_days == 90
H1B_registration_month == 3
H1B_start_date_month == 10
H1B_start_date_day == 1

---------------------------------------------------------------------------
(* datetime.date: ordinals, calendar fields and ISO strings                *)

\* None, the absent date (every real ordinal is >= 1)
None == 0

IsLeap(y) == (y % 4 = 0) /\ ((y % 100 # 0) \/ (y % 400 = 0))

DaysBeforeYear(y) ==
    LET p == y - 1 IN p * 365 + (p \div 4) - (p \div 100) + (p \div 400)

\* _DAYS_IN_MONTH, with February of a leap year
DaysInMonth(y, m) ==
    IF m = 2 /\ IsLeap(y) THEN 29
    ELSE <<31, 28, 31, 30, 31, 30, 31, 31, 30, 31, 30, 31>>[m]

\* _days_before_month(year, month)
DaysBeforeMonth(y, m) ==
    <<0, 31, 59, 90, 120, 151, 181, 212, 243, 273, 304, 334>>[m]
    + (IF m > 2 /\ IsLeap(y) THEN 1 ELSE 0)

\* date(y, m, d).toordinal()
Ymd2Ord(y, m, d) == DaysBeforeYear(y) + DaysBeforeMonth(y, m) + d

\* date.fromordinal(n).year
YearOf(n) ==
    LET est == ((n - 1) * 400) \div 146097 + 1
    IN IF n <= DaysBeforeYear(est) THEN est - 1
       ELSE IF n > DaysBeforeYear(est + 1) THEN est + 1
       ELSE est

\* date.fromordinal(n) as (year, month, day)
Ord2Ymd(n) ==
    LET y == YearOf(n)
        r == n - DaysBeforeYear(y)
        guess == (r + 49) \div 32
        m == IF DaysBeforeMonth(y, guess) >= r THEN guess - 1 ELSE guess
    IN <<y, m, r - DaysBeforeMonth(y, m)>>

\* date.isoformat(): the fields of "YYYY-MM-DD"
isoformat(d) == Ord2Ymd(d)

\* date.fromisoformat(s)
fromisoformat(s) == Ymd2Ord(s[1], s[2], s[3])

\* s < t on two ISO date strings (character order of fixed-width fields)
IsoLess(s, t) ==
    \/ s[1] < t[1]
    \/ s[1] = t[1] /\ s[2] < t[2]
    \/ s[1] = t[1] /\ s[2] = t[2] /\ s[3] < t[3]

\* date.fromisoformat(s) accepts s: year 1..9999 (MINYEAR..MAXYEAR), month 1..12
\* and a day of that month
IsIsoDate(s) ==
    /\ s[1] \in 1..9999
    /\ s[2] \in 1..12
    /\ s[3] \in 1..DaysInMonth(s[1], s[2])

\* the "if not date_str" guard left out: the empty string reaches fromisoformat
_parse_date_raises_on_empty(date_str) ==
    date_str = <<>> \/ ~IsIsoDate(date_str)

\* _parse_date raises ValueError: a non-empty string that is not a date
_parse_date_raises(date_str) ==
    date_str # <<>> /\ ~IsIsoDate(date_str)

\* _parse_date: empty or None gives None, otherwise the parsed date
_parse_date(date_str) ==
    IF date_str = <<>> THEN None ELSE fromisoformat(date_str)

\* a deadline falling today counted as passed (days <= 0 for days < 0)
_deadline_urgency_passed_today(today_, deadline) ==
    LET days == deadline - today_
    IN IF days <= 0 THEN "passed"
       ELSE IF days <= 7 THEN "critical"
       ELSE IF days <= 30 THEN "high"
       ELSE IF days <= 90 THEN "medium"
       ELSE "low"

\* the buckets closed on the wrong side (days < 7, < 30, < 90)
_deadline_urgency_open_buckets(today_, deadline) ==
    LET days == deadline - today_
    IN IF days < 0 THEN "passed"
       ELSE IF days < 7 THEN "critical"
       ELSE IF days < 30 THEN "high"
       ELSE IF days < 90 THEN "medium"
       ELSE "low"

\* _deadline_urgency(today, deadline)
_deadline_urgency(today_, deadline) ==
    LET days == deadline - today_
    IN IF days < 0 THEN "passed"
       ELSE IF days <= 7 THEN "critical"
       ELSE IF days <= 30 THEN "high"
       ELSE IF days <= 90 THEN "medium"
       ELSE "low"

\* _event(id, title, event_date, event_type, urgency, description, action_items)
_event(id, event_date, event_type, urgency) ==
    [id |-> id, date |-> isoformat(event_date), type |-> event_type,
     urgency |-> urgency]

\* [x] if cond else []
Maybe(cond, e) == IF cond THEN <<e>> ELSE <<>>

\* s.startswith(prefix)
StartsWith(s, prefix) ==
    Len(s) >= Len(prefix) /\ SubSeq(s, 1, Len(prefix)) = prefix

---------------------------------------------------------------------------
(* Country lookups: backend/app/data/country_backlogs.py                   *)

\* str.lower() of one character
LowerChar(c) ==
    CASE c = "A" -> "a" [] c = "B" -> "b" [] c = "C" -> "c" [] c = "D" -> "d"
      [] c = "E" -> "e" [] c = "F" -> "f" [] c = "G" -> "g" [] c = "H" -> "h"
      [] c = "I" -> "i" [] c = "J" -> "j" [] c = "K" -> "k" [] c = "L" -> "l"
      [] c = "M" -> "m" [] c = "N" -> "n" [] c = "O" -> "o" [] c = "P" -> "p"
      [] c = "Q" -> "q" [] c = "R" -> "r" [] c = "S" -> "s" [] c = "T" -> "t"
      [] c = "U" -> "u" [] c = "V" -> "v" [] c = "W" -> "w" [] c = "X" -> "x"
      [] c = "Y" -> "y" [] c = "Z" -> "z" [] OTHER -> c

\* str.lower()
RECURSIVE lower(_)
lower(s) ==
    IF Len(s) = 0 THEN ""
    ELSE LowerChar(SubSeq(s, 1, 1)) \o lower(SubSeq(s, 2, Len(s)))

BACKLOGGED_COUNTRIES == {"India", "China"}

\* EB_WAIT_TIMES[country_cat][category]
EB_WAIT_TIMES(country_cat, category) ==
    CASE country_cat = "India" /\ category = "EB-1" ->
            [wait_years_min |-> 2, wait_years_max |-> 4, status |-> "backlogged"]
      [] country_cat = "India" /\ category = "EB-2" ->
            [wait_years_min |-> 10, wait_years_max |-> 30, status |-> "severely_backlogged"]
      [] country_cat = "India" /\ category = "EB-3" ->
            [wait_years_min |-> 10, wait_years_max |-> 25, status |-> "severely_backlogged"]
      [] country_cat = "China" /\ category = "EB-1" ->
            [wait_years_min |-> 1, wait_years_max |-> 3, status |-> "backlogged"]
      [] country_cat = "China" /\ category = "EB-2" ->
            [wait_years_min |-> 4, wait_years_max |-> 8, status |-> "backlogged"]
      [] country_cat = "China" /\ category = "EB-3" ->
            [wait_years_min |-> 4, wait_years_max |-> 8, status |-> "backlogged"]
      [] country_cat = "Rest of World" /\ category = "EB-1" ->
            [wait_years_min |-> 0, wait_years_max |-> 1, status |-> "current"]
      [] country_cat = "Rest of World" /\ category = "EB-2" ->
            [wait_years_min |-> 0, wait_years_max |-> 2, status |-> "current"]
      [] country_cat = "Rest of World" /\ category = "EB-3" ->
            [wait_years_min |-> 0, wait_years_max |-> 2, status |-> "current"]

\* the lookup without lower(): only the spellings of the table keys match
get_country_category_case_sensitive(country) ==
    IF country \in {"India"} THEN "India"
    ELSE IF country \in {"China", "Mainland China", "PRC"} THEN "China"
    ELSE "Rest of World"

get_country_category(country) ==
    LET c == lower(country)
    IN IF c \in {"india"} THEN "India"
       ELSE IF c \in {"china", "mainland china", "prc"} THEN "China"
       ELSE "Rest of World"

get_green_card_wait(country, category) ==
    LET country_cat == get_country_category(country)
        cat == IF country_cat \in {"India", "China", "Rest of World"}
               THEN country_cat ELSE "Rest of World"
    IN IF category \in {"EB-1", "EB-2", "EB-3"}
       THEN EB_WAIT_TIMES(cat, category)
       ELSE EB_WAIT_TIMES("Rest of World", "EB-2")

---------------------------------------------------------------------------
(* Timeline generator: backend/app/services/timeline_generator.py          *)

_program_extension_events(today_, graduation, original_graduation) ==
    <<_event("program_extension_notice", today_, "deadline", "high")>>
    \o Maybe(original_graduation # None /\ graduation # None,
             _event("original_graduation", original_graduation, "milestone", "none"))

\* the tracking with the 90-day limit for every degree (is_stem not consulted)
_add_unemployment_tracking_flat_limit(evs, today_, graduation, is_stem, unemployment_days) ==
    LET limit == OPT_unemployment_limit_days
        remaining == limit - unemployment_days
    IN IF remaining <= 0
       THEN Append(evs, _event("unemployment_exceeded", today_, "risk", "critical"))
       ELSE IF remaining <= 30
       THEN Append(evs, _event("unemployment_critical", today_, "risk", "critical"))
       ELSE IF remaining <= 60
       THEN Append(evs, _event("unemployment_warning", today_, "risk", "high"))
       ELSE evs

\* appends to the list it is given; the list after the call
_add_unemployment_tracking(evs, today_, graduation, is_stem, unemployment_days) ==
    LET limit == IF is_stem THEN STEM_OPT_unemployment_limit_days
                 ELSE OPT_unemployment_limit_days
        remaining == limit - unemployment_days
    IN IF remaining <= 0
       THEN Append(evs, _event("unemployment_exceeded", today_, "risk", "critical"))
       ELSE IF remaining <= 30
       THEN Append(evs, _event("unemployment_critical", today_, "risk", "critical"))
       ELSE IF remaining <= 60
       THEN Append(evs, _event("unemployment_warning", today_, "risk", "high"))
       ELSE evs

\* appends to the list it is given; the list after the call
_add_job_search_events(evs, today_, graduation, opt_status) ==
    IF opt_status \in {"applied", "active"}
    THEN Append(evs, _event("job_search_milestone", today_ + 30, "milestone", "medium"))
    ELSE IF graduation # None /\ graduation > today_
    THEN LET search_start == graduation - 180
         IN IF search_start > today_
            THEN Append(evs, _event("begin_job_search", search_start, "milestone", "medium"))
            ELSE evs
    ELSE evs

\* the loop without its break: a cycle for every remaining year
RECURSIVE h1b_cycle_loop_no_break(_, _, _)
h1b_cycle_loop_no_break(today_, year, stop) ==
    IF year >= stop THEN <<>>
    ELSE LET reg_open == Ymd2Ord(year, H1B_registration_month, 1)
             results == Ymd2Ord(year, 4, 1)
             start == Ymd2Ord(year, H1B_start_date_month, H1B_start_date_day)
         IN IF reg_open < today_
            THEN h1b_cycle_loop_no_break(today_, year + 1, stop)
            ELSE << _event("h1b_registration_" \o ToString(year), reg_open,
                           "deadline", _deadline_urgency(today_, reg_open)),
                    _event("h1b_results_" \o ToString(year), results,
                           "milestone", "medium"),
                    _event("h1b_capgap_" \o ToString(year), Ymd2Ord(year, 4, 1),
                           "milestone", "none"),
                    _event("h1b_start_" \o ToString(year), start,
                           "milestone", "none") >>
                 \o h1b_cycle_loop_no_break(today_, year + 1, stop)

\* the loop "for year in range(current_year, current_year + 3)" from `year` on
RECURSIVE h1b_cycle_loop(_, _, _)
h1b_cycle_loop(today_, year, stop) ==
    IF year >= stop THEN <<>>
    ELSE LET reg_open == Ymd2Ord(year, H1B_registration_month, 1)
             results == Ymd2Ord(year, 4, 1)
             start == Ymd2Ord(year, H1B_start_date_month, H1B_start_date_day)
         IN IF reg_open < today_
            THEN h1b_cycle_loop(today_, year + 1, stop)
            ELSE << _event("h1b_registration_" \o ToString(year), reg_open,
                           "deadline", _deadline_urgency(today_, reg_open)),
                    _event("h1b_results_" \o ToString(year), results,
                           "milestone", "medium"),
                    _event("h1b_capgap_" \o ToString(year), Ymd2Ord(year, 4, 1),
                           "milestone", "none"),
                    _event("h1b_start_" \o ToString(year), start,
                           "milestone", "none") >>

_h1b_lottery_events(today_, graduation, h1b_attempts) ==
    IF graduation # None /\ graduation > today_ + 180 THEN <<>>
    ELSE LET current_year == YearOf(today_)
         IN h1b_cycle_loop(today_, current_year, current_year + 3)
            \o Maybe(h1b_attempts >= 3,
                     _event("h1b_alternatives", today_ + 7, "milestone", "high"))

_green_card_events(today_, graduation, country) ==
    LET gc_wait == get_green_card_wait(country, "EB-2")
        gc_process_start == IF graduation # None THEN graduation + 365 * 2
                            ELSE today_ + 365
    IN IF gc_process_start > today_
       THEN LET severity == IF gc_wait.status # "current" THEN "warning" ELSE "none"
            IN <<_event("green_card_info", gc_process_start, "milestone", severity)>>
       ELSE <<>>

\* the STEM OPT extension step without its is_stem gate
f1_stem_opt_events_ungated(today_, opt_end, is_stem) ==
    LET stem_apply_deadline == opt_end - STEM_OPT_apply_before_opt_expires_days
        stem_opt_end == opt_end + 730
    IN << _event("stem_opt_apply", stem_apply_deadline, "deadline",
                 _deadline_urgency(today_, stem_apply_deadline)),
          _event("stem_opt_expiration", stem_opt_end, "deadline", "critical") >>

\* the STEM OPT extension taken as 12 months long (365 days for 730)
f1_stem_opt_events_one_year(today_, opt_end, is_stem) ==
    IF is_stem
    THEN LET stem_apply_deadline == opt_end - STEM_OPT_apply_before_opt_expires_days
             stem_opt_end == opt_end + 365
         IN << _event("stem_opt_apply", stem_apply_deadline, "deadline",
                      _deadline_urgency(today_, stem_apply_deadline)),
               _event("stem_opt_expiration", stem_opt_end, "deadline", "critical") >>
    ELSE <<>>

\* _f1_timeline, the STEM OPT extension step (is_stem gate and its two events)
f1_stem_opt_events(today_, opt_end, is_stem) ==
    IF is_stem
    THEN LET stem_apply_deadline == opt_end - STEM_OPT_apply_before_opt_expires_days
             stem_opt_end == opt_end + 730
         IN << _event("stem_opt_apply", stem_apply_deadline, "deadline",
                      _deadline_urgency(today_, stem_apply_deadline)),
               _event("stem_opt_expiration", stem_opt_end, "deadline", "critical") >>
    ELSE <<>>

\* _f1_timeline after the CPT check: the OPT steps and the H-1B lottery
\* the OPT steps with expired counted among the completed application states
f1_opt_steps_expired_skips_application(today_, graduation, is_stem, career_goal, opt_status, unemployment_days, h1b_attempts) ==
    LET application ==
            IF opt_status \in {"applied", "active", "expired"}
            THEN IF opt_status = "applied"
                 THEN <<_event("opt_pending", today_, "milestone", "medium")>>
                 ELSE IF opt_status = "active"
                 THEN _add_unemployment_tracking(<<>>, today_, graduation, is_stem,
                                                 unemployment_days)
                 ELSE <<>>
            ELSE LET opt_window_open == graduation - OPT_apply_before_graduation_days
                     opt_deadline == graduation + OPT_apply_after_graduation_days
                 IN << _event("opt_apply_window_open", opt_window_open, "deadline",
                              _deadline_urgency(today_, opt_window_open)),
                       _event("opt_apply_deadline", opt_deadline, "deadline", "critical") >>
        opt_start == graduation + 1
        remaining == OPT_unemployment_limit_days - unemployment_days
        unemployment_warning == opt_start + (OPT_unemployment_limit_days - 30)
        opt_end == graduation + 365
    IN application
       \o <<_event("opt_start", opt_start, "milestone", "none")>>
       \o Maybe(unemployment_days > 0 /\ opt_status # "active" /\ remaining <= 30,
                _event("unemployment_critical", today_, "risk", "critical"))
       \o <<_event("opt_unemployment_warning", unemployment_warning, "risk", "high")>>
       \o <<_event("opt_expiration", opt_end, "deadline", "critical")>>
       \o f1_stem_opt_events(today_, opt_end, is_stem)
       \o (IF career_goal \in {"stay_us_longterm", "undecided"}
           THEN _h1b_lottery_events(today_, graduation, h1b_attempts)
           ELSE <<>>)

f1_opt_steps(today_, graduation, is_stem, career_goal, opt_status, unemployment_days, h1b_attempts) ==
    LET application ==
            IF opt_status \in {"applied", "active"}
            THEN IF opt_status = "applied"
                 THEN <<_event("opt_pending", today_, "milestone", "medium")>>
                 ELSE IF opt_status = "active"
                 THEN _add_unemployment_tracking(<<>>, today_, graduation, is_stem,
                                                 unemployment_days)
                 ELSE <<>>
            ELSE LET opt_window_open == graduation - OPT_apply_before_graduation_days
                     opt_deadline == graduation + OPT_apply_after_graduation_days
                 IN << _event("opt_apply_window_open", opt_window_open, "deadline",
                              _deadline_urgency(today_, opt_window_open)),
                       _event("opt_apply_deadline", opt_deadline, "deadline", "critical") >>
        opt_start == graduation + 1
        remaining == OPT_unemployment_limit_days - unemployment_days
        unemployment_warning == opt_start + (OPT_unemployment_limit_days - 30)
        opt_end == graduation + 365
    IN application
       \o <<_event("opt_start", opt_start, "milestone", "none")>>
       \o Maybe(unemployment_days > 0 /\ opt_status # "active" /\ remaining <= 30,
                _event("unemployment_critical", today_, "risk", "critical"))
       \o <<_event("opt_unemployment_warning", unemployment_warning, "risk", "high")>>
       \o <<_event("opt_expiration", opt_end, "deadline", "critical")>>
       \o f1_stem_opt_events(today_, opt_end, is_stem)
       \o (IF career_goal \in {"stay_us_longterm", "undecided"}
           THEN _h1b_lottery_events(today_, graduation, h1b_attempts)
           ELSE <<>>)

\* the CPT warning without its early return: the OPT steps still follow
_f1_timeline_cpt_not_absorbing(today_, graduation, is_stem, cpt_months, career_goal, opt_status, unemployment_days, h1b_attempts) ==
    IF graduation = None THEN <<>>
    ELSE (IF cpt_months >= 12
          THEN <<_event("cpt_warning", today_, "risk", "critical")>>
          ELSE <<>>)
         \o f1_opt_steps(today_, graduation, is_stem, career_goal, opt_status,
                         unemployment_days, h1b_attempts)

_f1_timeline(today_, graduation, is_stem, cpt_months, career_goal, opt_status, unemployment_days, h1b_attempts) ==
    IF graduation = None THEN <<>>
    ELSE IF cpt_months >= 12
    THEN <<_event("cpt_warning", today_, "risk", "critical")>>
    ELSE f1_opt_steps(today_, graduation, is_stem, career_goal, opt_status,
                      unemployment_days, h1b_attempts)

\* _opt_timeline, the block under "if is_stem and opt_end > today"
opt_stem_block(today_, opt_end, is_stem) ==
    IF is_stem /\ opt_end > today_
    THEN LET stem_apply_deadline == opt_end - STEM_OPT_apply_before_opt_expires_days
         IN Maybe(stem_apply_deadline > today_,
                  _event("stem_opt_apply", stem_apply_deadline, "deadline",
                         _deadline_urgency(today_, stem_apply_deadline)))
            \o <<_event("opt_expiration", opt_end, "deadline", "critical")>>
            \o Maybe(is_stem,
                     _event("stem_opt_expiration", opt_end + 730, "deadline", "critical"))
    ELSE <<>>

\* the OPT branch with the H-1B lottery not gated on career_goal
_opt_timeline_lottery_ungated(today_, graduation, is_stem, career_goal, opt_status, unemployment_days, h1b_attempts, has_job_offer) ==
    (IF graduation # None
     THEN LET opt_end == graduation + 365
              tracked == IF opt_status = "active"
                         THEN _add_unemployment_tracking(<<>>, today_, graduation,
                                                         is_stem, unemployment_days)
                         ELSE <<>>
          IN tracked \o opt_stem_block(today_, opt_end, is_stem)
     ELSE <<>>)
    \o _h1b_lottery_events(today_, graduation, h1b_attempts)
    \o Maybe(has_job_offer,
             _event("employer_h1b_prep", today_ + 14, "milestone", "medium"))

_opt_timeline(today_, graduation, is_stem, career_goal, opt_status, unemployment_days, h1b_attempts, has_job_offer) ==
    (IF graduation # None
     THEN LET opt_end == graduation + 365
              tracked == IF opt_status = "active"
                         THEN _add_unemployment_tracking(<<>>, today_, graduation,
                                                         is_stem, unemployment_days)
                         ELSE <<>>
          IN tracked \o opt_stem_block(today_, opt_end, is_stem)
     ELSE <<>>)
    \o (IF career_goal \in {"stay_us_longterm", "undecided"}
        THEN _h1b_lottery_events(today_, graduation, h1b_attempts)
        ELSE <<>>)
    \o Maybe(has_job_offer,
             _event("employer_h1b_prep", today_ + 14, "milestone", "medium"))

\* the branch's list kept between calls (a mutable default argument)
_h1b_timeline_shared_list(today_, career_goal) ==
    [i \in 1..Len(events) |-> _event(events[i].id, _parse_date(events[i].date),
                                      events[i].type, events[i].urgency)]
    \o Maybe(career_goal = "stay_us_longterm",
             _event("i140_filing", today_ + 30, "milestone", "medium"))

_h1b_timeline(today_, career_goal) ==
    Maybe(career_goal = "stay_us_longterm",
          _event("i140_filing", today_ + 30, "milestone", "medium"))

\* the final sort left out
sort_by_date_skipped(evs) == evs

\* the sort with reverse=True: latest date first
RECURSIVE sort_by_date_descending(_)
sort_by_date_descending(evs) ==
    IF evs = <<>> THEN <<>>
    ELSE LET n == Len(evs)
             rest == sort_by_date_descending(SubSeq(evs, 1, n - 1))
             e == evs[n]
             k == Cardinality({i \in 1..Len(rest) : ~IsoLess(rest[i].date, e.date)})
         IN SubSeq(rest, 1, k) \o <<e>> \o SubSeq(rest, k + 1, Len(rest))

\* events.sort(key=lambda e: e["date"]): list.sort is stable
RECURSIVE sort_by_date(_)
sort_by_date(evs) ==
    IF evs = <<>> THEN <<>>
    ELSE LET n == Len(evs)
             rest == sort_by_date(SubSeq(evs, 1, n - 1))
             e == evs[n]
             k == Cardinality({i \in 1..Len(rest) : ~IsoLess(e.date, rest[i].date)})
         IN SubSeq(rest, 1, k) \o <<e>> \o SubSeq(rest, k + 1, Len(rest))

\* is_past taken from the urgency label instead of the date
mark_past_from_urgency(e, today_) ==
    [id |-> e.id, date |-> e.date, type |-> e.type, urgency |-> e.urgency,
     is_past |-> e.urgency = "passed"]

\* event["is_past"] = _parse_date(event["date"]) < today
mark_past(e, today_) ==
    [id |-> e.id, date |-> e.date, type |-> e.type, urgency |-> e.urgency,
     is_past |-> _parse_date(e.date) < today_]

\* generate_timeline up to the final pass: the events in the order appended
collect_events(u, today_) ==
    LET visa_type == u.visa_type
        is_stem == u.is_stem
        program_start == _parse_date(u.program_start)
        graduation == _parse_date(u.expected_graduation)
        cpt_months == u.cpt_months_used
        career_goal == u.career_goal
        country == u.country
        opt_status == u.opt_status
        program_extended == u.program_extended
        original_graduation == _parse_date(u.original_graduation)
        h1b_attempts == u.h1b_attempts
        unemployment_days == u.unemployment_days
        has_job_offer == u.has_job_offer
        e1 == IF program_extended
              THEN _program_extension_events(today_, graduation, original_graduation)
              ELSE <<>>
        e2 == e1 \o
              (IF visa_type = "F-1"
               THEN _f1_timeline(today_, graduation, is_stem, cpt_months, career_goal,
                                 opt_status, unemployment_days, h1b_attempts)
               ELSE IF visa_type = "OPT"
               THEN _opt_timeline(today_, graduation, is_stem, career_goal, opt_status,
                                  unemployment_days, h1b_attempts, has_job_offer)
               ELSE IF visa_type = "H-1B"
               THEN _h1b_timeline(today_, career_goal)
               ELSE <<>>)
        e3 == e2 \o Maybe(program_start # None /\ program_start > today_,
                          _event("program_start", program_start, "milestone", "none"))
        e4 == e3 \o Maybe(graduation # None,
                          _event("graduation", graduation, "milestone",
                                 _deadline_urgency(today_, graduation)))
        e5 == IF ~has_job_offer /\ visa_type \in {"F-1", "OPT"} /\ graduation # None
              THEN _add_job_search_events(e4, today_, graduation, opt_status)
              ELSE e4
        e6 == e5 \o Maybe(has_job_offer /\ visa_type \in {"F-1", "OPT"},
                          _event("employer_h1b_prep", today_ + 14, "milestone", "medium"))
    IN e6 \o (IF career_goal = "stay_us_longterm"
              THEN _green_card_events(today_, graduation, country)
              ELSE <<>>)

\* generate_timeline(user_input), with date.today() = today_
generate_timeline(u, today_) ==
    LET sorted == sort_by_date(collect_events(u, today_))
    IN [i \in 1..Len(sorted) |-> mark_past(sorted[i], today_)]

---------------------------------------------------------------------------
(* Risk analyzer: backend/app/services/risk_analyzer.py                    *)

\* _risk(risk_type, severity, message, recommendation)
_risk(risk_type, severity) == [type |-> risk_type, severity |-> severity]

\* severity_order.get(severity, 99)
severity_order(severity) ==
    CASE severity = "critical" -> 0
      [] severity = "high" -> 1
      [] severity = "warning" -> 2
      [] severity = "info" -> 3
      [] OTHER -> 99

\* an unstable sort: an alert is placed before the alerts of its own severity
RECURSIVE sort_by_severity_unstable(_)
sort_by_severity_unstable(rs) ==
    IF rs = <<>> THEN <<>>
    ELSE LET n == Len(rs)
             rest == sort_by_severity_unstable(SubSeq(rs, 1, n - 1))
             r == rs[n]
             k == Cardinality({i \in 1..Len(rest) :
                     severity_order(rest[i].severity) < severity_order(r.severity)})
         IN SubSeq(rest, 1, k) \o <<r>> \o SubSeq(rest, k + 1, Len(rest))

\* risks.sort(key=lambda r: severity_order.get(r["severity"], 99)): stable
RECURSIVE sort_by_severity(_)
sort_by_severity(rs) ==
    IF rs = <<>> THEN <<>>
    ELSE LET n == Len(rs)
             rest == sort_by_severity(SubSeq(rs, 1, n - 1))
             r == rs[n]
             k == Cardinality({i \in 1..Len(rest) :
                     severity_order(rest[i].severity) <= severity_order(r.severity)})
         IN SubSeq(rest, 1, k) \o <<r>> \o SubSeq(rest, k + 1, Len(rest))

\* the approaching-limit threshold off by one (> 9 for >= 9)
cpt_risks_off_by_one(cpt_months) ==
    IF cpt_months >= 12 THEN <<_risk("cpt_overuse", "critical")>>
    ELSE IF cpt_months > 9 THEN <<_risk("cpt_approaching_limit", "warning")>>
    ELSE <<>>

\* analyze_risks, "CPT overuse risk"
cpt_risks(cpt_months) ==
    IF cpt_months >= 12 THEN <<_risk("cpt_overuse", "critical")>>
    ELSE IF cpt_months >= 9 THEN <<_risk("cpt_approaching_limit", "warning")>>
    ELSE <<>>

\* analyze_risks, "Upcoming deadline risks"
deadline_risks(today_, graduation, visa_type) ==
    IF graduation # None /\ visa_type = "F-1"
    THEN LET days_to_grad == graduation - today_
             opt_deadline == graduation + OPT_apply_after_graduation_days
             days_to_opt_deadline == opt_deadline - today_
         IN Maybe(0 < days_to_opt_deadline /\ days_to_opt_deadline <= 30,
                  _risk("opt_deadline_approaching", "critical"))
            \o Maybe(0 < days_to_grad /\ days_to_grad <= 30,
                     _risk("graduation_approaching", "high"))
    ELSE <<>>

\* the 60-day warning threshold used for STEM and non-STEM profiles alike
unemployment_limit_risks_one_threshold(unemployment_days, visa_type, is_stem) ==
    IF unemployment_days > 0 /\ visa_type \in {"F-1", "OPT"}
    THEN LET limit == IF is_stem THEN STEM_OPT_unemployment_limit_days
                      ELSE OPT_unemployment_limit_days
             remaining == limit - unemployment_days
         IN IF remaining <= 0
            THEN <<_risk("unemployment_limit_exceeded", "critical")>>
            ELSE IF unemployment_days >= 60
            THEN <<_risk("unemployment_limit_approaching", "high")>>
            ELSE <<>>
    ELSE <<>>

\* analyze_risks, "1. Unemployment day limit approaching (actual days tracked)"
unemployment_limit_risks(unemployment_days, visa_type, is_stem) ==
    IF unemployment_days > 0 /\ visa_type \in {"F-1", "OPT"}
    THEN LET limit == IF is_stem THEN STEM_OPT_unemployment_limit_days
                      ELSE OPT_unemployment_limit_days
             warning_threshold == IF is_stem THEN 120 ELSE 60
             remaining == limit - unemployment_days
         IN IF remaining <= 0
            THEN <<_risk("unemployment_limit_exceeded", "critical")>>
            ELSE IF unemployment_days >= warning_threshold
            THEN <<_risk("unemployment_limit_approaching", "high")>>
            ELSE <<>>
    ELSE <<>>

\* analyze_risks, "4. No job offer with approaching OPT deadline"
no_job_offer_risks(today_, has_job_offer, visa_type, graduation) ==
    IF ~has_job_offer /\ visa_type \in {"F-1", "OPT"} /\ graduation # None
    THEN LET opt_end == graduation + 365
             days_to_opt_end == opt_end - today_
         IN Maybe(0 < days_to_opt_end /\ days_to_opt_end <= 120,
                  _risk("no_job_offer_opt_ending",
                        IF days_to_opt_end <= 60 THEN "critical" ELSE "high"))
    ELSE <<>>

\* analyze_risks up to the final sort: the alerts in the order appended
collect_risks(u, today_) ==
    LET visa_type == u.visa_type
        is_stem == u.is_stem
        cpt_months == u.cpt_months_used
        country == u.country
        career_goal == u.career_goal
        graduation == _parse_date(u.expected_graduation)
        currently_employed == u.currently_employed
        program_extended == u.program_extended
        h1b_attempts == u.h1b_attempts
        unemployment_days == u.unemployment_days
        has_job_offer == u.has_job_offer
    IN cpt_risks(cpt_months)
       \o Maybe(career_goal = "stay_us_longterm"
                /\ get_country_category(country) \in BACKLOGGED_COUNTRIES,
                _risk("country_backlog", "warning"))
       \o deadline_risks(today_, graduation, visa_type)
       \o Maybe(visa_type \in {"F-1", "OPT"} /\ ~is_stem,
                _risk("non_stem_limited", "info"))
       \o Maybe(visa_type = "OPT" /\ ~currently_employed,
                _risk("unemployment_tracking", "high"))
       \o Maybe(career_goal = "stay_us_longterm" /\ visa_type \in {"F-1", "OPT"},
                _risk("h1b_lottery_risk", "info"))
       \o unemployment_limit_risks(unemployment_days, visa_type, is_stem)
       \o Maybe(program_extended, _risk("program_extension_i20", "high"))
       \o (IF h1b_attempts >= 3 THEN <<_risk("multiple_h1b_failures", "warning")>>
           ELSE IF h1b_attempts >= 1 THEN <<_risk("h1b_prior_attempts", "info")>>
           ELSE <<>>)
       \o no_job_offer_risks(today_, has_job_offer, visa_type, graduation)
       \o Maybe(~is_stem /\ visa_type \in {"F-1", "OPT"}
                /\ career_goal = "stay_us_longterm",
                _risk("non_stem_limited_options", "warning"))

\* the analyzer taking an alert from the events it is handed
analyze_risks_reading_events(u, timeline_events, today_) ==
    sort_by_severity(
        collect_risks(u, today_)
        \o (IF \E i \in 1..Len(timeline_events) :
                 /\ timeline_events[i].type = "deadline"
                 /\ timeline_events[i].urgency = "critical"
                 /\ ~timeline_events[i].is_past
            THEN <<_risk("deadline_imminent", "critical")>>
            ELSE <<>>))

\* analyze_risks(user_input, timeline_events), with date.today() = today_
analyze_risks(u, timeline_events, today_) ==
    sort_by_severity(collect_risks(u, today_))

---------------------------------------------------------------------------
(* The calls and their inputs                                              *)

\* unemployment_days ranges over 0, 30, ..., 30 * MaxUnemploymentSteps
MaxUnemploymentSteps == 5

UnemploymentDays == {30 * k : k \in 0..MaxUnemploymentSteps}

\* an optional date field: absent, or the ISO string of t + d
OptionalDates(t, offsets) == {<<>>} \cup {isoformat(t + d) : d \in offsets}

\* date.today(): before, on and after the March 1 registration date
Todays == {Ymd2Ord(2026, 2, 20), Ymd2Ord(2026, 3, 1), Ymd2Ord(2026, 10, 28)}

\* expected_graduation, in days from today, for the generator
GraduationOffsets == {-400, -300, -40, 20, 180, 200}

\* (program_extended, original_graduation in days from today)
Extensions(t) ==
    {<<FALSE, <<>> >>, <<TRUE, <<>> >>, <<TRUE, isoformat(t - 100)>>}

Profile(visa_type, is_stem, program_start, expected_graduation, cpt_months_used, currently_employed, career_goal, country, opt_status, program_extended, original_graduation, h1b_attempts, unemployment_days, has_job_offer) ==
    [visa_type |-> visa_type, is_stem |-> is_stem, program_start |-> program_start,
     expected_graduation |-> expected_graduation,
     cpt_months_used |-> cpt_months_used,
     currently_employed |-> currently_employed, career_goal |-> career_goal,
     country |-> country, opt_status |-> opt_status,
     program_extended |-> program_extended,
     original_graduation |-> original_graduation, h1b_attempts |-> h1b_attempts,
     unemployment_days |-> unemployment_days, has_job_offer |-> has_job_offer]

\* u is a profile generate_timeline is applied to: every combination for the
\* student visas, and for the other visas the fields only the F-1 and OPT
\* branches read (opt_status, h1b_attempts, unemployment_days) at their defaults
IsTimelineProfile(u, t) ==
    \/ \E v \in {"F-1", "OPT"}, stem \in BOOLEAN,
          ps \in OptionalDates(t, {30}), g \in OptionalDates(t, GraduationOffsets),
          cpt \in {11, 12},
          goal \in {"stay_us_longterm", "return_home", "undecided"},
          c \in {"India", "Canada"},
          os \in {"none", "applied", "active", "expired"},
          x \in Extensions(t), h \in {0, 3}, ud \in UnemploymentDays,
          job \in BOOLEAN :
         u = Profile(v, stem, ps, g, cpt, FALSE, goal, c, os, x[1], x[2], h, ud, job)
    \/ \E v \in {"H-1B", "J-1"}, stem \in BOOLEAN,
          ps \in OptionalDates(t, {30}), g \in OptionalDates(t, GraduationOffsets),
          cpt \in {11, 12},
          goal \in {"stay_us_longterm", "return_home", "undecided"},
          c \in {"India", "Canada"}, x \in Extensions(t), job \in BOOLEAN :
         u = Profile(v, stem, ps, g, cpt, FALSE, goal, c, "none", x[1], x[2], 0, 0, job)

\* expected_graduation, in days from today, for the analyzer: both sides of
\* every threshold on days to graduation, to graduation + 60 and to
\* graduation + 365
RiskGraduationOffsets ==
    {-365, -364, -305, -304, -245, -244, -60, -59, -30, -29, 0, 1, 30, 31}

\* u is a profile analyze_risks is applied to (program_start, opt_status and
\* original_graduation, which it does not use, at their defaults)
IsRiskProfile(u, t) ==
    \E v \in {"F-1", "OPT", "H-1B"}, stem \in BOOLEAN,
       g \in OptionalDates(t, RiskGraduationOffsets),
       cpt \in {8, 9, 11, 12}, emp \in BOOLEAN,
       goal \in {"stay_us_longterm", "return_home", "undecided"},
       c \in {"India", "PRC", "Canada"}, ext \in BOOLEAN,
       h \in {0, 1, 3}, ud \in UnemploymentDays, job \in BOOLEAN :
      u = Profile(v, stem, <<>>, g, cpt, emp, goal, c, "none", ext, <<>>, h, ud, job)

InitTimeline ==
    /\ today \in Todays
    /\ IsTimelineProfile(user_input, today)
    /\ generated = FALSE
    /\ events = <<>>
    /\ analyzed = FALSE
    /\ risks = <<>>
    /\ args = <<>>
    /\ result = "pending"
    /\ history = <<>>
    /\ ServiceIdle

InitRisks ==
    /\ today = Ymd2Ord(2026, 10, 28)
    /\ IsRiskProfile(user_input, today)
    /\ generated = FALSE
    /\ events = <<>>
    /\ analyzed = FALSE
    /\ risks = <<>>
    /\ args = <<>>
    /\ result = "pending"
    /\ history = <<>>
    /\ ServiceIdle

\* one call of generate_timeline(user_input)
CallGenerateTimeline ==
    /\ ~generated
    /\ events' = generate_timeline(user_input, today)
    /\ generated' = TRUE
    /\ UNCHANGED <<today, user_input, analyzed, risks, args, result, history, svc_vars>>

\* one call of analyze_risks(user_input, events)
CallAnalyzeRisks ==
    /\ ~analyzed
    /\ risks' = analyze_risks(user_input, events, today)
    /\ analyzed' = TRUE
    /\ UNCHANGED <<today, user_input, generated, events, args, result, history, svc_vars>>

\* how far before and after today the deadlines handed to _deadline_urgency lie
MaxDaysBehind == 10
MaxDaysAhead == 100

\* a direct call _deadline_urgency(today, deadline) is about to be made
InitUrgency ==
    /\ today \in Todays
    /\ user_input = <<>>
    /\ generated = FALSE
    /\ events = <<>>
    /\ analyzed = FALSE
    /\ risks = <<>>
    /\ \E deadline \in (today - MaxDaysBehind)..(today + MaxDaysAhead) :
          args = <<deadline>>
    /\ result = "pending"
    /\ history = <<>>
    /\ ServiceIdle

\* the call _deadline_urgency(today, deadline) returns
CallDeadlineUrgency ==
    /\ result = "pending"
    /\ result' = _deadline_urgency(today, args[1])
    /\ UNCHANGED <<today, user_input, generated, events, analyzed, risks, args, history, svc_vars>>

\* how many calls a run of repeated calls makes
MaxCalls == 3

\* the profiles the repeated calls are made on
CallProfiles(t) ==
    { Profile("F-1", TRUE, <<>>, isoformat(t + 20), 11, FALSE, "stay_us_longterm",
              "India", "none", FALSE, <<>>, 3, 0, FALSE),
      Profile("F-1", FALSE, <<>>, isoformat(t + 20), 12, FALSE, "undecided",
              "Canada", "none", TRUE, isoformat(t - 40), 0, 0, TRUE),
      Profile("OPT", TRUE, <<>>, isoformat(t - 300), 9, FALSE, "stay_us_longterm",
              "China", "active", FALSE, <<>>, 1, 60, FALSE),
      Profile("H-1B", FALSE, <<>>, <<>>, 0, TRUE, "stay_us_longterm",
              "India", "none", FALSE, <<>>, 0, 0, TRUE) }

\* a caller about to make a series of calls, on a day that stays the same
InitCalls ==
    /\ today \in {Ymd2Ord(2026, 2, 20), Ymd2Ord(2026, 10, 28)}
    /\ user_input \in CallProfiles(today)
    /\ generated = FALSE
    /\ events = <<>>
    /\ analyzed = FALSE
    /\ risks = <<>>
    /\ args = <<>>
    /\ result = "pending"
    /\ history = <<>>
    /\ ServiceIdle

\* a call of generate_timeline(user_input), after any earlier calls
RepeatGenerateTimeline ==
    /\ Len(history) < MaxCalls
    /\ events' = generate_timeline(user_input, today)
    /\ generated' = TRUE
    /\ UNCHANGED <<today, user_input, analyzed, risks, args, result, svc_vars>>
    /\ history' = Append(history, [fn |-> "generate_timeline", profile |-> user_input,
                                   day |-> today, output |-> events',
                                   profile_after |-> user_input'])

\* a call of analyze_risks(user_input, events), after any earlier calls
RepeatAnalyzeRisks ==
    /\ Len(history) < MaxCalls
    /\ risks' = analyze_risks(user_input, events, today)
    /\ analyzed' = TRUE
    /\ UNCHANGED <<today, user_input, generated, events, args, result, svc_vars>>
    /\ history' = Append(history, [fn |-> "analyze_risks", profile |-> user_input,
                                   day |-> today, output |-> risks',
                                   profile_after |-> user_input'])

\* the caller turns to another profile for its next call
PassOtherProfile ==
    /\ Len(history) < MaxCalls
    /\ user_input' \in CallProfiles(today) \ {user_input}
    /\ UNCHANGED <<today, generated, events, analyzed, risks, args, result, history, svc_vars>>

\* the lists handed to analyze_risks as timeline_events: none, what
\* generate_timeline returns for the profile, and one that is not the
\* generator's (a critical deadline three days ahead)
TimelineEventsArguments(u, t) ==
    { <<>>,
      generate_timeline(u, t),
      << [id |-> "filing_deadline", date |-> isoformat(t + 3), type |-> "deadline",
          urgency |-> "critical", is_past |-> FALSE] >> }

\* analyze_risks(user_input, events) is about to be called
InitRiskEvents ==
    /\ today = Ymd2Ord(2026, 10, 28)
    /\ IsRiskProfile(user_input, today)
    /\ user_input.cpt_months_used = 12
    /\ user_input.h1b_attempts = 1
    /\ user_input.unemployment_days = 60
    /\ generated = FALSE
    /\ events \in TimelineEventsArguments(user_input, today)
    /\ analyzed = FALSE
    /\ risks = <<>>
    /\ args = <<events>>
    /\ result = "pending"
    /\ history = <<>>
    /\ ServiceIdle

\* profiles of every shape: enum fields with and without a recognized value,
\* date fields absent, well-formed, malformed ("2026-02-30", "2026-13-01",
\* "0000-01-01") and at the two ends of the range of date
IsShapeProfile(u, t) ==
    \E v \in {"F-1", "OPT", "H-1B", "B-2"}, stem \in BOOLEAN,
       ps \in {<<>>, isoformat(t + 10), <<2026, 13, 1>>},
       g \in {<<>>, isoformat(t + 20), <<2026, 2, 30>>, <<0, 1, 1>>,
              <<1, 1, 1>>, <<9999, 12, 31>>},
       cpt \in {11, 12},
       goal \in {"stay_us_longterm", "return_home", "travel"},
       os \in {"none", "applied", "active", "denied"},
       x \in Extensions(t) \cup {<<TRUE, <<0, 1, 1>> >>}, job \in BOOLEAN :
      u = Profile(v, stem, ps, g, cpt, FALSE, goal, "India", os, x[1], x[2], 3, 60, job)

\* both functions are about to be called on a profile of any shape
InitShapes ==
    /\ today = Ymd2Ord(2026, 2, 20)
    /\ IsShapeProfile(user_input, today)
    /\ generated = FALSE
    /\ events = <<>>
    /\ analyzed = FALSE
    /\ risks = <<>>
    /\ args = <<>>
    /\ result = [generate_timeline |-> "pending", analyze_risks |-> "pending"]
    /\ history = <<>>
    /\ ServiceIdle

\* date + timedelta raises OverflowError: the result lies outside
\* date.min .. date.max
date_overflows(d) == d < 1 \/ d > Ymd2Ord(9999, 12, 31)

\* the dates generate_timeline computes from expected_graduation with a
\* timedelta on the path the profile takes (those computed from today, and
\* graduation - 180 under graduation > today, stay in range)
generate_timeline_date_arithmetic(u, today_) ==
    LET graduation == _parse_date(u.expected_graduation)
        opt_end == graduation + 365
    IN IF graduation = None THEN {}
       ELSE (IF u.visa_type = "F-1" /\ u.cpt_months_used < 12
             THEN (IF u.opt_status \in {"applied", "active"} THEN {}
                   ELSE {graduation - OPT_apply_before_graduation_days,
                         graduation + OPT_apply_after_graduation_days})
                  \cup {graduation + 1,
                        (graduation + 1) + (OPT_unemployment_limit_days - 30),
                        opt_end}
                  \cup (IF u.is_stem
                        THEN {opt_end - STEM_OPT_apply_before_opt_expires_days, opt_end + 730}
                        ELSE {})
             ELSE {})
            \cup (IF u.visa_type = "OPT"
                  THEN {opt_end}
                       \cup (IF u.is_stem /\ opt_end > today_
                             THEN {opt_end - STEM_OPT_apply_before_opt_expires_days,
                                   opt_end + 730}
                             ELSE {})
                  ELSE {})
            \cup (IF u.career_goal = "stay_us_longterm" THEN {graduation + 365 * 2} ELSE {})

\* the dates analyze_risks computes from expected_graduation with a timedelta
analyze_risks_date_arithmetic(u) ==
    LET graduation == _parse_date(u.expected_graduation)
    IN IF graduation = None THEN {}
       ELSE (IF u.visa_type = "F-1"
             THEN {graduation + OPT_apply_after_graduation_days} ELSE {})
            \cup (IF ~u.has_job_offer /\ u.visa_type \in {"F-1", "OPT"}
                  THEN {graduation + 365} ELSE {})

\* generate_timeline(user_input): parses the three date fields first, which
\* raises ValueError on a malformed one; a date computed past the range of
\* date raises OverflowError; otherwise it returns its list
GenerateTimelineOrRaise ==
    /\ result.generate_timeline = "pending"
    /\ IF \/ _parse_date_raises(user_input.program_start)
          \/ _parse_date_raises(user_input.expected_graduation)
          \/ _parse_date_raises(user_input.original_graduation)
       THEN /\ result' = [result EXCEPT !.generate_timeline = "ValueError"]
            /\ UNCHANGED <<generated, events>>
       ELSE IF \E d \in generate_timeline_date_arithmetic(user_input, today) : date_overflows(d)
       THEN /\ result' = [result EXCEPT !.generate_timeline = "OverflowError"]
            /\ UNCHANGED <<generated, events>>
       ELSE /\ result' = [result EXCEPT !.generate_timeline = "returned"]
            /\ events' = generate_timeline(user_input, today)
            /\ generated' = TRUE
    /\ UNCHANGED <<today, user_input, analyzed, risks, args, history, svc_vars>>

\* analyze_risks(user_input, events): parses expected_graduation only
AnalyzeRisksOrRaise ==
    /\ result.analyze_risks = "pending"
    /\ IF _parse_date_raises(user_input.expected_graduation)
       THEN /\ result' = [result EXCEPT !.analyze_risks = "ValueError"]
            /\ UNCHANGED <<analyzed, risks>>
       ELSE IF \E d \in analyze_risks_date_arithmetic(user_input) : date_overflows(d)
       THEN /\ result' = [result EXCEPT !.analyze_risks = "OverflowError"]
            /\ UNCHANGED <<analyzed, risks>>
       ELSE /\ result' = [result EXCEPT !.analyze_risks = "returned"]
            /\ risks' = analyze_risks(user_input, events, today)
            /\ analyzed' = TRUE
    /\ UNCHANGED <<today, user_input, generated, events, args, history, svc_vars>>

\* str.upper() of one lower-case letter
UpperChar(c) ==
    CASE c = "a" -> "A" [] c = "c" -> "C" [] c = "d" -> "D" [] c = "h" -> "H"
      [] c = "i" -> "I" [] c = "l" -> "L" [] c = "m" -> "M" [] c = "n" -> "N"
      [] c = "p" -> "P" [] c = "r" -> "R" [] OTHER -> c

\* every letter-casing of a lower-case string
RECURSIVE Casings(_)
Casings(s) ==
    IF Len(s) = 0 THEN {""}
    ELSE LET c == SubSeq(s, 1, 1)
         IN {x \o r : x \in {c, UpperChar(c)}, r \in Casings(SubSeq(s, 2, Len(s)))}

\* country names handed to the lookups: every casing of india, china and
\* prc, some casings of mainland china, and strings that match none
CountryNames ==
    Casings("india") \cup Casings("china") \cup Casings("prc")
    \cup {"mainland china", "Mainland China", "MAINLAND CHINA", "mainland China",
          "MainLand chinA", "mAINLAND cHINA"}
    \cup {"", "Canada", "Rest of World", "indian", "chin", " india", "china ",
          "mainlandchina", "p.r.c.", "Indonesia"}

\* EB categories handed to get_green_card_wait: the three of the table and others
EbCategories == {"EB-1", "EB-2", "EB-3", "EB-4", "eb-2", ""}

\* get_country_category(country) and get_green_card_wait(country, category)
\* are about to be called directly
InitCountry ==
    /\ today = Ymd2Ord(2026, 10, 28)
    /\ user_input = <<>>
    /\ generated = FALSE
    /\ events = <<>>
    /\ analyzed = FALSE
    /\ risks = <<>>
    /\ \E country \in CountryNames, category \in EbCategories :
          args = <<country, category>>
    /\ result = [get_country_category |-> "pending",
                 get_green_card_wait |-> [status |-> "pending"]]
    /\ history = <<>>
    /\ ServiceIdle

\* the call get_country_category(country) returns
CallGetCountryCategory ==
    /\ result.get_country_category = "pending"
    /\ result' = [result EXCEPT !.get_country_category = get_country_category(args[1])]
    /\ UNCHANGED <<today, user_input, generated, events, analyzed, risks, args, history, svc_vars>>

\* the call get_green_card_wait(country, category) returns
CallGetGreenCardWait ==
    /\ result.get_green_card_wait.status = "pending"
    /\ result' = [result EXCEPT
                     !.get_green_card_wait = get_green_card_wait(args[1], args[2])]
    /\ UNCHANGED <<today, user_input, generated, events, analyzed, risks, args, history, svc_vars>>

(***************************************************************************)
(* AI timeline generator: backend/app/services/ai_timeline_generator.py    *)
(*                                                                         *)
(* A JSON value the model returned is [type, value]: type is the Python    *)
(* type json.loads gave it ("dict", "list", "str", "NoneType") and value   *)
(* its content; a dict's content is a record of the keys present.  The     *)
(* text fields of an event or an alert are kept, since validation tests    *)
(* them for emptiness.                                                     *)
(***************************************************************************)

MAX_RETRIES == 2

VALID_EVENT_TYPES == {"deadline", "milestone", "risk"}

VALID_URGENCY == {"critical", "high", "medium", "low", "none", "passed"}

VALID_SEVERITY == {"critical", "high", "warning", "info"}

\* what a validator returns for a rejected value
NoneObject == [type |-> "NoneType"]

\* sub in s, on two strings
Contains(s, sub) ==
    \E i \in 1..(Len(s) - Len(sub) + 1) : SubSeq(s, i, i + Len(sub) - 1) = sub

\* field not in d or not d[field], for the text fields of a dict
MissingOrEmpty(d, field) ==
    \/ field \notin DOMAIN d
    \/ d[field] = ""

\* event["action_items"] after _validate_event: a list of the non-empty items
_validate_action_items(d) ==
    IF "action_items" \notin DOMAIN d THEN <<>>
    ELSE IF d.action_items.type # "list" THEN <<>>
    ELSE SelectSeq(d.action_items.value, LAMBDA i : i # "")

\* _validate_event(event, today): the cleaned event, or None
_validate_event(event, today_) ==
    IF event.type # "dict" THEN NoneObject
    ELSE LET d == event.value IN
         IF \E field \in {"id", "title", "type", "urgency", "description"} :
                MissingOrEmpty(d, field)
         THEN NoneObject
         ELSE IF "date" \notin DOMAIN d THEN NoneObject
         ELSE IF d.date = <<>> THEN NoneObject
         ELSE IF ~IsIsoDate(d.date) THEN NoneObject
         ELSE [id |-> d.id, title |-> d.title, date |-> d.date,
               type |-> IF d.type \in VALID_EVENT_TYPES THEN d.type ELSE "milestone",
               urgency |-> IF d.urgency \in VALID_URGENCY THEN d.urgency ELSE "medium",
               description |-> d.description,
               action_items |-> _validate_action_items(d),
               is_past |-> fromisoformat(d.date) < today_]

\* _validate_risk(risk): the cleaned alert, or None
_validate_risk(risk) ==
    IF risk.type # "dict" THEN NoneObject
    ELSE LET d == risk.value IN
         IF \E field \in {"type", "severity", "message", "recommendation"} :
                MissingOrEmpty(d, field)
         THEN NoneObject
         ELSE [type |-> d.type,
               severity |-> IF d.severity \in VALID_SEVERITY THEN d.severity ELSE "info",
               message |-> d.message, recommendation |-> d.recommendation]

\* [v for v in (f(x) for x in xs) if v is not None]
NotNone(vs) == SelectSeq(vs, LAMBDA v : v # NoneObject)

\* _validate_response(data): the cleaned response, or None
_validate_response(data, today_) ==
    IF data.type # "dict" THEN NoneObject
    ELSE IF "timeline_events" \notin DOMAIN data.value THEN NoneObject
    ELSE IF data.value.timeline_events.type # "list" THEN NoneObject
    ELSE LET raw_events == data.value.timeline_events.value
             evs == NotNone([i \in 1..Len(raw_events) |->
                                 _validate_event(raw_events[i], today_)])
             raw_risks == IF "risk_alerts" \notin DOMAIN data.value THEN <<>>
                          ELSE IF data.value.risk_alerts.type # "list" THEN <<>>
                          ELSE data.value.risk_alerts.value
             rs == NotNone([i \in 1..Len(raw_risks) |-> _validate_risk(raw_risks[i])])
         IN IF evs = <<>> THEN NoneObject
            ELSE [timeline_events |-> sort_by_date(evs),
                  risk_alerts |-> sort_by_severity(rs)]

\* a rate-limit error is recognised by its text alone
_is_rate_limit_error_text_only(exc) == Contains(exc.text, "429")

\* _is_rate_limit_error(exc): "429" in str(exc) or the class is ResourceExhausted
_is_rate_limit_error(exc) ==
    \/ Contains(exc.text, "429")
    \/ Contains(exc.class, "ResourceExhausted")

\* the RuntimeError raised after the loop, by its message
raise_after_loop(last_error) ==
    IF last_error # "" /\ (Contains(last_error, "429") \/ Contains(last_error, "ResourceExhausted"))
    THEN "AI rate limit reached (20 requests/day on free tier). Please wait and try again."
    ELSE "Timeline generation failed: " \o last_error

\* generate_ai_timeline up to its first await: the prompt is built and attempt 1 sent
start_generate_ai_timeline ==
    [status |-> "running", attempt |-> 1, last_error |-> "",
     result |-> NoneObject, message |-> "", responses |-> <<>>]

\* the loop leaves: break, or range(1, MAX_RETRIES + 1) is used up
leave_loop(call, last_error, response) ==
    [status |-> "RuntimeError", attempt |-> call.attempt, last_error |-> last_error,
     result |-> NoneObject, message |-> raise_after_loop(last_error),
     responses |-> Append(call.responses, response)]

\* the loop goes on to the next attempt if there is one
next_attempt(call, last_error, response) ==
    IF call.attempt < MAX_RETRIES
    THEN [status |-> "running", attempt |-> call.attempt + 1, last_error |-> last_error,
          result |-> NoneObject, message |-> "",
          responses |-> Append(call.responses, response)]
    ELSE leave_loop(call, last_error, response)

\* generate_ai_timeline from the await of one attempt to the next await or the end
resume_generate_ai_timeline(call, response, today_) ==
    IF response.kind = "json"
    THEN LET validated == _validate_response(response.data, today_) IN
         IF validated # NoneObject
         THEN [status |-> "returned", attempt |-> call.attempt,
               last_error |-> call.last_error, result |-> validated, message |-> "",
               responses |-> Append(call.responses, response)]
         ELSE next_attempt(call, "Invalid response structure from AI", response)
    ELSE IF _is_rate_limit_error(response)
         THEN leave_loop(call, response.text, response)
         ELSE next_attempt(call, response.text, response)

\* a JSON object, list and string
Dict(fields) == [type |-> "dict", value |-> fields]

List(items) == [type |-> "list", value |-> items]

Str(text) == [type |-> "str", value |-> text]

\* the events a response may hold, for today t
RawEvents(t) ==
    { Dict([id |-> "opt_deadline", title |-> "OPT deadline", date |-> isoformat(t + 30),
            type |-> "deadline", urgency |-> "high", description |-> "File the I-765.",
            action_items |-> List(<<"File I-765", "">>)]),
      Dict([id |-> "program_start", title |-> "Program start", date |-> isoformat(t - 200),
            type |-> "kickoff", urgency |-> "urgent", description |-> "Program began.",
            action_items |-> Str("none")]),
      Dict([id |-> "graduation", title |-> "Graduation", date |-> <<2026, 2, 30>>,
            type |-> "milestone", urgency |-> "low", description |-> "Graduate."]),
      Dict([id |-> "h1b", title |-> "", date |-> isoformat(t + 90),
            type |-> "deadline", urgency |-> "low", description |-> "Register."]),
      Dict([id |-> "green_card", title |-> "Green card", type |-> "milestone",
            urgency |-> "low", description |-> "Start PERM."]),
      Str("opt_deadline") }

\* the alerts a response may hold
RawRisks ==
    { Dict([type |-> "backlog", severity |-> "info", message |-> "Long wait.",
            recommendation |-> "Consider EB-1."]),
      Dict([type |-> "cpt", severity |-> "severe", message |-> "CPT near limit.",
            recommendation |-> "Track CPT months."]),
      Dict([type |-> "lottery", severity |-> "critical", message |-> "",
            recommendation |-> "Plan alternatives."]) }

\* one or two of the events, in either order
EventLists(t) ==
    {<<>>} \cup {<<e>> : e \in RawEvents(t)}
           \cup {<<e, f>> : e \in RawEvents(t), f \in RawEvents(t)}

\* what generate_structured_json_async gives one attempt, for today t
AiResponses(t) ==
    {[kind |-> "json", data |-> Dict([timeline_events |-> List(evs),
                                      risk_alerts |-> List(<<r, s>>)]) ] :
        evs \in EventLists(t), r \in {CHOOSE x \in RawRisks : x.value.severity = "info"},
        s \in RawRisks}
    \cup {[kind |-> "json", data |-> Dict([timeline_events |-> List(evs)])] :
            evs \in {<<e>> : e \in RawEvents(t)}}
    \cup {[kind |-> "json", data |-> List(<<>>)],
          [kind |-> "json", data |-> Dict([risk_alerts |-> List(<<>>)])],
          [kind |-> "json", data |-> Dict([timeline_events |-> Str("none")])],
          [kind |-> "exception", class |-> "ResourceExhausted", text |-> "Quota exceeded"],
          [kind |-> "exception", class |-> "ClientError", text |-> "429 Too Many Requests"],
          [kind |-> "exception", class |-> "JSONDecodeError", text |-> "Expecting value"],
          [kind |-> "exception", class |-> "RuntimeError", text |-> "All models exhausted"],
          [kind |-> "exception", class |-> "InternalServerError", text |-> "rate limit hit"]}

\* a server on which generate_ai_timeline has not been called yet
InitAi ==
    /\ today \in Todays
    /\ user_input = <<>>
    /\ generated = FALSE
    /\ events = <<>>
    /\ analyzed = FALSE
    /\ risks = <<>>
    /\ args = <<>>
    /\ result = "pending"
    /\ history = <<>>
    /\ ServiceIdle

\* generate_ai_timeline(user_input) is called and awaits its first attempt
CallGenerateAiTimeline ==
    /\ ai_call = <<>>
    /\ ai_call' = start_generate_ai_timeline
    /\ UNCHANGED <<core_vars, limiter_vars, route_vars, auth_vars>>

\* the awaited generate_structured_json_async returns or raises
ResumeGenerateAiTimeline ==
    /\ ai_call # <<>>
    /\ ai_call.status = "running"
    /\ \E response \in AiResponses(today) :
          ai_call' = resume_generate_ai_timeline(ai_call, response, today)
    /\ UNCHANGED <<core_vars, limiter_vars, route_vars, auth_vars>>

NextAi == CallGenerateAiTimeline \/ ResumeGenerateAiTimeline

SpecAi == InitAi /\ [][NextAi]_vars

(***************************************************************************)
(* AI request tracker: backend/app/ai_rate_limit.py                        *)
(*                                                                         *)
(* time.time() is a whole number of seconds.                               *)
(***************************************************************************)

DAILY_LIMIT == 1500

WINDOW_SECONDS == 86400

\* mark_exhausted's default cooldown_seconds
DEFAULT_COOLDOWN_SECONDS == 300

Max(a, b) == IF a >= b THEN a ELSE b

\* _clean(now): the recorded times younger than the window
_clean(hits, now_) ==
    LET cutoff == now_ - WINDOW_SECONDS
    IN SelectSeq(hits, LAMBDA t : t > cutoff)

\* record_ai_request(): ai_rate_limit._hits[_KEY] afterwards
record_ai_request(hits, now_) == Append(hits, now_)

\* mark_exhausted(cooldown_seconds): _exhausted_until afterwards
mark_exhausted(now_, cooldown_seconds) == now_ + cooldown_seconds

\* the cooldown still holds at the instant it was set to end
externally_blocked_inclusive(now_, exhausted_until) == now_ <= exhausted_until

\* externally_blocked = now < _exhausted_until
externally_blocked(now_, exhausted_until) == now_ < exhausted_until

\* get_ai_rate_status(): the dict returned
get_ai_rate_status(hits, exhausted_until, now_) ==
    LET used == Len(_clean(hits, now_))
        blocked == externally_blocked(now_, exhausted_until)
    IN [used |-> used,
        limit |-> DAILY_LIMIT,
        remaining |-> IF blocked THEN 0 ELSE Max(DAILY_LIMIT - used, 0),
        allowed |-> ~blocked /\ used < DAILY_LIMIT,
        retry_after |-> IF blocked THEN Max(0, exhausted_until - now_) ELSE 0]

\* check_ai_rate_limit() raises AIRateLimitExceeded
check_ai_rate_limit_raises(hits, exhausted_until, now_) ==
    ~get_ai_rate_status(hits, exhausted_until, now_).allowed

\* the clock at server start, and how long before it the earlier requests were made
StartTime == 1000

\* no call is made later than this, but for those a whole window later
MaxNow == 1400

\* how far the clock moves between two calls
ClockSteps == {100}

\* the cooldowns mark_exhausted is called with
Cooldowns == {DEFAULT_COOLDOWN_SECONDS, 100}

\* mark_exhausted and record_ai_request calls in one run
MaxMarks == 2

MaxRecorded == 1

\* the tracker with no request, or one short of the daily limit, recorded
InitLimiter ==
    /\ CoreIdle
    /\ now = StartTime
    /\ ai_hits \in {<<>>, [i \in 1..(DAILY_LIMIT - 1) |-> 0]}
    /\ _exhausted_until = 0
    /\ ai_status = <<>>
    /\ ai_marks = <<>>
    /\ ai_call = <<>>
    /\ credit_calls = <<>>
    /\ requests = <<>>
    /\ other_requests = <<>>
    /\ auth_hits = <<>>
    /\ auth_calls = <<>>

\* time passes
Tick ==
    /\ \E d \in ClockSteps :
          /\ now + d <= MaxNow
          /\ now' = now + d
    /\ UNCHANGED <<core_vars, ai_hits, _exhausted_until, ai_status, ai_marks, ai_call, route_vars, auth_vars>>

\* a whole window of the tracker passes
TickWindow ==
    /\ now <= MaxNow
    /\ now' = now + WINDOW_SECONDS
    /\ UNCHANGED <<core_vars, ai_hits, _exhausted_until, ai_status, ai_marks, ai_call, route_vars, auth_vars>>

\* record_ai_request()
RecordAiRequest ==
    /\ Cardinality({i \in DOMAIN ai_hits : ai_hits[i] >= StartTime}) < MaxRecorded
    /\ ai_hits' = record_ai_request(ai_hits, now)
    /\ UNCHANGED <<core_vars, now, _exhausted_until, ai_status, ai_marks, ai_call, route_vars, auth_vars>>

\* mark_exhausted(cooldown_seconds)
MarkExhausted ==
    /\ Len(ai_marks) < MaxMarks
    /\ \E cooldown_seconds \in Cooldowns :
          /\ _exhausted_until' = mark_exhausted(now, cooldown_seconds)
          /\ ai_marks' = Append(ai_marks, [at |-> now, cooldown_seconds |-> cooldown_seconds])
    /\ UNCHANGED <<core_vars, now, ai_hits, ai_status, ai_call, route_vars, auth_vars>>

\* get_ai_rate_status(), as GET /rate-limit-status calls it
GetAiRateStatus ==
    /\ ai_hits' = _clean(ai_hits, now)
    /\ ai_status' = [call |-> "get_ai_rate_status", at |-> now,
                     status |-> get_ai_rate_status(ai_hits, _exhausted_until, now),
                     raised |-> FALSE]
    /\ UNCHANGED <<core_vars, now, _exhausted_until, ai_marks, ai_call, route_vars, auth_vars>>

\* check_ai_rate_limit()
CheckAiRateLimit ==
    /\ ai_hits' = _clean(ai_hits, now)
    /\ ai_status' = [call |-> "check_ai_rate_limit", at |-> now,
                     status |-> get_ai_rate_status(ai_hits, _exhausted_until, now),
                     raised |-> check_ai_rate_limit_raises(ai_hits, _exhausted_until, now)]
    /\ UNCHANGED <<core_vars, now, _exhausted_until, ai_marks, ai_call, route_vars, auth_vars>>

NextLimiter == Tick \/ TickWindow \/ RecordAiRequest \/ MarkExhausted \/ GetAiRateStatus \/ CheckAiRateLimit

SpecLimiter == InitLimiter /\ [][NextLimiter]_vars

(***************************************************************************)
(* POST /generate-timeline: backend/app/routes/timeline.py                 *)
(*                                                                         *)
(* A request runs from its arrival to the await of generate_ai_timeline in *)
(* one step of the event loop, and from the end of that call to its        *)
(* response in another; requests in flight interleave between the two.     *)
(***************************************************************************)

CREDIT_LIMIT == 5

\* get_user_by_id(user_id): the columns the SELECT names, as a dict
get_user_by_id(user_id) == [id |-> user_id, email |-> "student@example.edu", profile |-> None]

\* user.get("credits_used", 0) or 0
credits_of(user) ==
    IF "credits_used" \in DOMAIN user THEN user.credits_used ELSE 0

\* increment_credits_used(user["id"]): the call returns, or raises with a text
IncrementOutcomes ==
    {[status |-> "returned", message |-> "returned"],
     [status |-> "raised", message |-> "no such column: credits_used"]}

\* generate_ai_timeline(user_input), given what its attempts get: how the call ends
RECURSIVE run_generate_ai_timeline(_, _, _)
run_generate_ai_timeline(call, responses, today_) ==
    IF call.status # "running" \/ responses = <<>> THEN call
    ELSE run_generate_ai_timeline(resume_generate_ai_timeline(call, Head(responses), today_),
                                  Tail(responses), today_)

generate_ai_timeline(responses, today_) ==
    run_generate_ai_timeline(start_generate_ai_timeline, responses, today_)

\* the handler charges and marks on any error text at all
is_rate_limit_detail_any_error(detail) == TRUE

\* "rate limit" in detail.lower() or "429" in detail
is_rate_limit_detail(detail) ==
    \/ Contains(lower(detail), "rate limit")
    \/ Contains(detail, "429")

\* the response of a request that was turned away or failed
http_exception(status_code) == [pc |-> "done", status_code |-> status_code]

\* what the attempts of the generation behind one request get, for today t
RouteResponses(t) ==
    {r \in AiResponses(t) : r.kind = "exception"}
    \cup {[kind |-> "json", data |-> Dict([timeline_events |-> List(<<e>>)])] :
            e \in {x \in RawEvents(t) : x.type = "dict" /\ x.value.id \in {"opt_deadline", "graduation"}}}

\* how a generate_ai_timeline call can end: returned, or RuntimeError and its text
AiOutcomes ==
    UNION {{[status |-> call.status, message |-> call.message] :
               call \in {generate_ai_timeline(<<first, second>>, t) :
                            first \in RouteResponses(t), second \in RouteResponses(t)}} :
           t \in Todays}

\* the users and how many requests they send
Users == {1, 2}

MaxRequests == 2

\* how many chat and tax_guide requests arrive
MaxOtherRequests == 1

\* texts of the exceptions their AI call raises
OtherAiErrors == {"429 quota", "Rate limit exceeded", "Expecting value"}

\* a request not yet sent
NewRequest == [pc |-> "new"]

\* the server at its start, no request sent yet
RouteIdle ==
    /\ today = Ymd2Ord(2026, 2, 20)
    /\ user_input = <<>>
    /\ generated = FALSE
    /\ events = <<>>
    /\ analyzed = FALSE
    /\ risks = <<>>
    /\ args = <<>>
    /\ result = "pending"
    /\ history = <<>>
    /\ now = StartTime
    /\ ai_hits = <<>>
    /\ _exhausted_until = 0
    /\ ai_status = <<>>
    /\ ai_marks = <<>>
    /\ ai_call = <<>>
    /\ other_requests = [a \in 1..MaxOtherRequests |-> NewRequest]
    /\ auth_hits = <<>>
    /\ auth_calls = <<>>

\* two users, MaxRequests requests between them
InitRoute ==
    /\ RouteIdle
    /\ credit_calls = [user_id \in Users |-> 0]
    /\ requests = [r \in 1..MaxRequests |-> NewRequest]

\* create_timeline, from the arrival of the request to its first await
StartCreateTimeline(r) ==
    /\ requests[r].pc = "new"
    /\ \A earlier \in 1..(r - 1) : requests[earlier].pc # "new"
    /\ \E user_id \in DOMAIN credit_calls :
          LET user == get_user_by_id(user_id)
              seen == [user_id |-> user_id, calls_at_start |-> credit_calls[user_id]]
              rejected == seen @@ http_exception(429)
                               @@ [generation |-> "none", increment |-> "none"]
          IN IF credits_of(user) >= CREDIT_LIMIT
             THEN /\ requests' = [requests EXCEPT ![r] = rejected]
                  /\ UNCHANGED <<ai_hits, ai_status>>
             ELSE /\ ai_hits' = _clean(ai_hits, now)
                  /\ ai_status' = [call |-> "check_ai_rate_limit", at |-> now,
                                   status |-> get_ai_rate_status(ai_hits, _exhausted_until, now),
                                   raised |-> check_ai_rate_limit_raises(ai_hits, _exhausted_until, now)]
                  /\ IF check_ai_rate_limit_raises(ai_hits, _exhausted_until, now)
                     THEN requests' = [requests EXCEPT ![r] = rejected]
                     ELSE requests' = [requests EXCEPT ![r] = seen @@ [pc |-> "generating"]]
    /\ UNCHANGED <<core_vars, now, _exhausted_until, ai_marks, ai_call, credit_calls, other_requests, auth_vars>>

\* create_timeline, from the end of generate_ai_timeline to the response:
\* record_ai_request() and increment_credits_used(user["id"]) when the generation
\* returned, the except branch when the generation or the increment raised
ResumeCreateTimeline(r) ==
    /\ requests[r].pc = "generating"
    /\ \E call \in AiOutcomes :
       \E inc \in (IF call.status = "returned" THEN IncrementOutcomes
                   ELSE {[status |-> "none", message |-> "none"]}) :
          LET seen == [user_id |-> requests[r].user_id,
                       calls_at_start |-> requests[r].calls_at_start]
              \* str(e) of the exception the try block ends with, "none" if it ends with none
              detail == IF call.status # "returned" THEN call.message
                        ELSE IF inc.status = "raised" THEN inc.message
                        ELSE "none"
              ended == [generation |-> IF call.status = "returned" THEN "returned" ELSE call.message,
                        increment |-> inc.message]
          IN /\ ai_hits' = IF call.status = "returned" THEN record_ai_request(ai_hits, now)
                           ELSE ai_hits
             /\ credit_calls' = IF inc.status = "returned"
                                THEN [credit_calls EXCEPT ![requests[r].user_id] = @ + 1]
                                ELSE credit_calls
             /\ IF detail = "none"
                THEN /\ requests' = [requests EXCEPT ![r] = seen @@ ended
                                         @@ [pc |-> "done", status_code |-> 200]]
                     /\ UNCHANGED <<_exhausted_until, ai_marks>>
                ELSE IF is_rate_limit_detail(detail)
                THEN /\ _exhausted_until' = mark_exhausted(now, DEFAULT_COOLDOWN_SECONDS)
                     /\ ai_marks' = Append(ai_marks, [at |-> now,
                                                      cooldown_seconds |-> DEFAULT_COOLDOWN_SECONDS])
                     /\ requests' = [requests EXCEPT ![r] = seen @@ ended @@ http_exception(429)]
                ELSE /\ requests' = [requests EXCEPT ![r] = seen @@ ended @@ http_exception(502)]
                     /\ UNCHANGED <<_exhausted_until, ai_marks>>
    /\ UNCHANGED <<core_vars, now, ai_status, ai_call, other_requests, auth_vars>>

\* how long an awaited call takes, and how long after the start calls still begin
AwaitSeconds == 3

MaxAwaitElapsed == 3

\* time passes while a request awaits its AI call
AwaitTick ==
    /\ now + AwaitSeconds <= StartTime + MaxAwaitElapsed
    /\ now' = now + AwaitSeconds
    /\ UNCHANGED <<core_vars, ai_hits, _exhausted_until, ai_status, ai_marks, ai_call, route_vars, auth_vars>>

\* the default cooldown passes
CooldownTick ==
    /\ now <= StartTime + MaxAwaitElapsed
    /\ now' = now + DEFAULT_COOLDOWN_SECONDS
    /\ UNCHANGED <<core_vars, ai_hits, _exhausted_until, ai_status, ai_marks, ai_call, route_vars, auth_vars>>

\* chat or tax_guide, from the arrival of the request to its first await
OtherAiRequestArrives(a) ==
    /\ other_requests[a].pc = "new"
    /\ \A earlier \in 1..(a - 1) : other_requests[earlier].pc # "new"
    /\ ai_hits' = _clean(ai_hits, now)
    /\ ai_status' = [call |-> "check_ai_rate_limit", at |-> now,
                     status |-> get_ai_rate_status(ai_hits, _exhausted_until, now),
                     raised |-> check_ai_rate_limit_raises(ai_hits, _exhausted_until, now)]
    /\ \E route \in {"chat", "tax_guide"} :
          IF check_ai_rate_limit_raises(ai_hits, _exhausted_until, now)
          THEN other_requests' = [other_requests EXCEPT ![a] = [route |-> route] @@ http_exception(429)]
          ELSE other_requests' = [other_requests EXCEPT ![a] = [route |-> route, pc |-> "awaiting"]]
    /\ UNCHANGED <<core_vars, now, _exhausted_until, ai_marks, ai_call, credit_calls, requests, auth_vars>>

\* chat or tax_guide, its AI call returned: record_ai_request() and the response;
\* tax_guide then calls setdefault on what json.loads made of the answer, which a
\* dict has and a list has not
OtherAiCallReturns(a) ==
    /\ other_requests[a].pc = "awaiting"
    /\ ai_hits' = record_ai_request(ai_hits, now)
    /\ \E kind \in {"dict", "list"} :
          LET route == other_requests[a].route
              status_code == IF route = "tax_guide" /\ kind # "dict" THEN 500 ELSE 200
          IN other_requests' = [other_requests EXCEPT ![a] =
                                   [route |-> route, pc |-> "done", status_code |-> status_code]]
    /\ UNCHANGED <<core_vars, now, _exhausted_until, ai_status, ai_marks, ai_call, credit_calls, requests, auth_vars>>

\* chat or tax_guide, its AI call raised with a rate-limit text: mark_exhausted(), 429
OtherAiCallRateLimited(a) ==
    /\ other_requests[a].pc = "awaiting"
    /\ \E detail \in OtherAiErrors :
          /\ is_rate_limit_detail(detail)
          /\ _exhausted_until' = mark_exhausted(now, DEFAULT_COOLDOWN_SECONDS)
          /\ ai_marks' = Append(ai_marks, [at |-> now, cooldown_seconds |-> DEFAULT_COOLDOWN_SECONDS])
          /\ other_requests' = [other_requests EXCEPT ![a] =
                                   [route |-> other_requests[a].route] @@ http_exception(429)]
    /\ UNCHANGED <<core_vars, now, ai_hits, ai_status, ai_call, credit_calls, requests, auth_vars>>

\* chat or tax_guide, its AI call raised with another text: 502, the tracker untouched
OtherAiCallFails(a) ==
    /\ other_requests[a].pc = "awaiting"
    /\ \E detail \in OtherAiErrors :
          /\ ~is_rate_limit_detail(detail)
          /\ other_requests' = [other_requests EXCEPT ![a] =
                                   [route |-> other_requests[a].route] @@ http_exception(502)]
    /\ UNCHANGED <<core_vars, limiter_vars, ai_call, credit_calls, requests, auth_vars>>

\* GET /rate-limit-status: get_ai_rate_status()
RateLimitStatus == GetAiRateStatus

\* the routes that share the AI tracker, and the clock they read
NextRoute ==
    \/ \E r \in DOMAIN requests : StartCreateTimeline(r)
    \/ \E r \in DOMAIN requests : ResumeCreateTimeline(r)
    \/ AwaitTick
    \/ CooldownTick
    \/ \E a \in DOMAIN other_requests : OtherAiRequestArrives(a)
    \/ \E a \in DOMAIN other_requests : OtherAiCallReturns(a)
    \/ \E a \in DOMAIN other_requests : OtherAiCallRateLimited(a)
    \/ \E a \in DOMAIN other_requests : OtherAiCallFails(a)
    \/ RateLimitStatus

SpecRoute == InitRoute /\ [][NextRoute]_vars

\* one user, who sends one request more than CREDIT_LIMIT
InitCredits ==
    /\ RouteIdle
    /\ credit_calls = [user_id \in {CHOOSE user_id \in Users : TRUE} |-> 0]
    /\ requests = [r \in 1..(CREDIT_LIMIT + 1) |-> NewRequest]

\* how many of its requests are in flight together, and how many fail
MaxInFlight == 1

MaxFailed == 1

\* the requests awaiting their generation, and those whose try block ended with
\* an exception, are within the bounds
CreditsBounds ==
    /\ Cardinality({r \in DOMAIN requests : requests[r].pc = "generating"}) <= MaxInFlight
    /\ Cardinality({r \in DOMAIN requests : /\ requests[r].pc = "done"
                                            /\ requests[r].generation # "none"
                                            /\ requests[r].status_code # 200}) <= MaxFailed

\* the same routes and clock: each step is a step of NextRoute, the requests of
\* the user one at a time and at most one of them failing
NextCredits ==
    \/ \E r \in DOMAIN requests : StartCreateTimeline(r) /\ CreditsBounds'
    \/ \E r \in DOMAIN requests : ResumeCreateTimeline(r) /\ CreditsBounds'
    \/ AwaitTick
    \/ CooldownTick
    \/ \E a \in DOMAIN other_requests : OtherAiRequestArrives(a)
    \/ \E a \in DOMAIN other_requests : OtherAiCallReturns(a)
    \/ \E a \in DOMAIN other_requests : OtherAiCallRateLimited(a)
    \/ \E a \in DOMAIN other_requests : OtherAiCallFails(a)
    \/ RateLimitStatus

SpecCredits == InitCredits /\ [][NextCredits]_vars

(***************************************************************************)
(* Auth rate limiter: backend/app/rate_limit.py                            *)
(*                                                                         *)
(* rate_limit._hits is a defaultdict(list): an IP not seen yet has the     *)
(* empty list.                                                             *)
(***************************************************************************)

MAX_REQUESTS == 10

\* rate_limit.WINDOW_SECONDS
AUTH_WINDOW_SECONDS == 60

\* _clean(ip, now): the times of the IP younger than the window
_clean_ip(hits, now_) ==
    LET cutoff == now_ - AUTH_WINDOW_SECONDS
    IN SelectSeq(hits, LAMBDA t : t > cutoff)

\* the limit is taken to be reached one call later
limit_reached_one_late(hits) == Len(hits) > MAX_REQUESTS

\* len(_hits[ip]) >= MAX_REQUESTS
limit_reached(hits) == Len(hits) >= MAX_REQUESTS

\* rate_limit_auth(request) for an IP with these hits: its list afterwards, and
\* whether the call went through (True) or raised HTTPException(429)
rate_limit_auth(hits, now_) ==
    LET cleaned == _clean_ip(hits, now_)
    IN IF limit_reached(cleaned)
       THEN [hits |-> cleaned, accepted |-> FALSE]
       ELSE [hits |-> Append(cleaned, now_), accepted |-> TRUE]

\* request.client.host of the callers
ClientIps == {"203.0.113.7", "198.51.100.9"}

\* how far the clock moves between two calls
AuthSteps == {30}

\* the clock stops this long after the start
MaxAuthElapsed == 90

\* rate_limit_auth calls in one run
MaxAuthCalls == 13

\* the rate_limit_auth calls made so far by the IPs of a set
RECURSIVE CallsMade(_)
CallsMade(ips) ==
    IF ips = {} THEN 0
    ELSE LET ip == CHOOSE x \in ips : TRUE
         IN Len(auth_calls[ip]) + CallsMade(ips \ {ip})

\* the limiter at server start
InitAuth ==
    /\ CoreIdle
    /\ now = StartTime
    /\ ai_hits = <<>>
    /\ _exhausted_until = 0
    /\ ai_status = <<>>
    /\ ai_marks = <<>>
    /\ ai_call = <<>>
    /\ credit_calls = <<>>
    /\ requests = <<>>
    /\ other_requests = <<>>
    /\ auth_hits = [ip \in ClientIps |-> <<>>]
    /\ auth_calls = [ip \in ClientIps |-> <<>>]

\* time passes between two calls
AuthTick ==
    /\ \E d \in AuthSteps :
          /\ now + d <= StartTime + MaxAuthElapsed
          /\ now' = now + d
    /\ UNCHANGED <<core_vars, ai_hits, _exhausted_until, ai_status, ai_marks, ai_call, route_vars, auth_vars>>

\* rate_limit_auth(request), for a request from ip
RateLimitAuth(ip) ==
    /\ CallsMade(ClientIps) < MaxAuthCalls
    /\ LET outcome == rate_limit_auth(auth_hits[ip], now)
       IN /\ auth_hits' = [auth_hits EXCEPT ![ip] = outcome.hits]
          /\ auth_calls' = [auth_calls EXCEPT
                               ![ip] = Append(@, [at |-> now, accepted |-> outcome.accepted])]
    /\ UNCHANGED <<core_vars, limiter_vars, ai_call, route_vars>>

NextAuth == AuthTick \/ \E ip \in ClientIps : RateLimitAuth(ip)

SpecAuth == InitAuth /\ [][NextAuth]_vars

\* unemployment_days on both sides of every threshold of the two functions
ThresholdUnemploymentDays ==
    {0, 1, 29, 30, 31, 59, 60, 61, 89, 90, 91, 119, 120, 121, 149, 150, 151}

\* u is a student profile both functions are applied to
IsTrackingProfile(u, t) ==
    \E v \in {"F-1", "OPT"}, stem \in BOOLEAN, g \in OptionalDates(t, {-300, -40, 20}),
       cpt \in {11, 12}, os \in {"none", "active"}, ud \in ThresholdUnemploymentDays,
       job \in BOOLEAN :
      u = Profile(v, stem, <<>>, g, cpt, FALSE, "stay_us_longterm", "India", os,
                  FALSE, <<>>, 0, ud, job)

\* generate_timeline and analyze_risks are about to be called on one profile
InitTracking ==
    /\ today \in Todays
    /\ IsTrackingProfile(user_input, today)
    /\ generated = FALSE
    /\ events = <<>>
    /\ analyzed = FALSE
    /\ risks = <<>>
    /\ args = <<>>
    /\ result = "pending"
    /\ history = <<>>
    /\ ServiceIdle

NextTracking == CallGenerateTimeline \/ CallAnalyzeRisks

SpecTracking == InitTracking /\ [][NextTracking]_vars

NextTimeline == CallGenerateTimeline

NextCountry == CallGetCountryCategory \/ CallGetGreenCardWait

SpecCountry == InitCountry /\ [][NextCountry]_vars

NextShapes == GenerateTimelineOrRaise \/ AnalyzeRisksOrRaise

SpecShapes == InitShapes /\ [][NextShapes]_vars

NextRiskEvents == CallAnalyzeRisks

SpecRiskEvents == InitRiskEvents /\ [][NextRiskEvents]_vars

NextCalls == RepeatGenerateTimeline \/ RepeatAnalyzeRisks \/ PassOtherProfile

SpecCalls == InitCalls /\ [][NextCalls]_vars

NextUrgency == CallDeadlineUrgency

SpecUrgency == InitUrgency /\ [][NextUrgency]_vars

NextRisks == CallAnalyzeRisks

SpecTimeline == InitTimeline /\ [][NextTimeline]_vars

SpecRisks == InitRisks /\ [][NextRisks]_vars

---------------------------------------------------------------------------
(* Properties of the returned lists                                        *)

EventIndexes == 1..Len(events)

EventIds == {events[i].id : i \in EventIndexes}

DateOf(e) == fromisoformat(e.date)

\* the events appended before the final sort, in append order
Appended == collect_events(user_input, today)

\* C1: the list generate_timeline returns is non-decreasing by date: each
\* event's calendar date is on or before the date of the event after it.
C1_SortedByDate ==
    generated =>
        \A i \in 1..(Len(events) - 1) : DateOf(events[i]) <= DateOf(events[i + 1])

\* C1 witness: a returned list whose events were appended out of date order,
\* so that the final sort moved some of them.
C1_Witness ==
    /\ generated
    /\ \E i \in 1..(Len(Appended) - 1) : DateOf(Appended[i]) > DateOf(Appended[i + 1])
    /\ Len(events) >= 4

\* C2: every returned event has is_past = (date < today), whatever its
\* urgency label.
C2_IsPastIsDateBeforeToday ==
    generated =>
        \A i \in EventIndexes : events[i].is_past = (DateOf(events[i]) < today)

\* C2 witness: a returned list holding a past event with a hard-coded
\* critical urgency, a past event with urgency none and a future event.
C2_Witness ==
    /\ generated
    /\ \E i \in EventIndexes : events[i].urgency = "critical" /\ events[i].is_past
    /\ \E i \in EventIndexes : events[i].urgency = "none" /\ events[i].is_past
    /\ \E i \in EventIndexes : ~events[i].is_past


RiskIndexes == 1..Len(risks)

\* severity rank of the claim: critical=0 < high=1 < warning=2 < info=3
SeverityRank(severity) ==
    CASE severity = "critical" -> 0 [] severity = "high" -> 1
      [] severity = "warning" -> 2 [] severity = "info" -> 3

\* position of an alert's predicate in the evaluation order
PredicateOrder(risk_type) ==
    CASE risk_type \in {"cpt_overuse", "cpt_approaching_limit"} -> 1
      [] risk_type = "country_backlog" -> 2
      [] risk_type = "opt_deadline_approaching" -> 3
      [] risk_type = "graduation_approaching" -> 4
      [] risk_type = "non_stem_limited" -> 5
      [] risk_type = "unemployment_tracking" -> 6
      [] risk_type = "h1b_lottery_risk" -> 7
      [] risk_type \in {"unemployment_limit_exceeded",
                        "unemployment_limit_approaching"} -> 8
      [] risk_type = "program_extension_i20" -> 9
      [] risk_type \in {"multiple_h1b_failures", "h1b_prior_attempts"} -> 10
      [] risk_type = "no_job_offer_opt_ending" -> 11
      [] risk_type = "non_stem_limited_options" -> 12

\* C3: the list analyze_risks returns is non-decreasing by severity rank, and
\* alerts of equal severity keep the order in which their predicates are
\* evaluated.
C3_SortedBySeverityStable ==
    analyzed =>
        \A i \in RiskIndexes : \A j \in RiskIndexes :
            i < j =>
                /\ SeverityRank(risks[i].severity) <= SeverityRank(risks[j].severity)
                /\ (risks[i].severity = risks[j].severity
                    => PredicateOrder(risks[i].type) < PredicateOrder(risks[j].type))

\* C3 witness: a returned list of three severities whose alerts were appended
\* out of severity order, with two alerts of one severity.
C3_Witness ==
    /\ analyzed
    /\ LET appended == collect_risks(user_input, today)
       IN \E i \in 1..(Len(appended) - 1) :
             SeverityRank(appended[i].severity) > SeverityRank(appended[i + 1].severity)
    /\ \E i \in RiskIndexes : \E j \in RiskIndexes :
          i < j /\ risks[i].severity = risks[j].severity
    /\ Cardinality({risks[i].severity : i \in RiskIndexes}) >= 3

\* one row of the section 4.4 table: the pair it contributes when it holds
Row(condition, risk_type, severity) ==
    IF condition THEN {<<risk_type, severity>>} ELSE {}

\* the rows of the section 4.4 table whose condition holds for profile u on day t
RiskTable(u, t) ==
    LET present == u.expected_graduation # <<>>
        g == IF present THEN fromisoformat(u.expected_graduation) ELSE 0
        student == u.visa_type \in {"F-1", "OPT"}
        longterm == u.career_goal = "stay_us_longterm"
        limit == IF u.is_stem THEN 150 ELSE 90
        threshold == IF u.is_stem THEN 120 ELSE 60
        tracked == u.unemployment_days > 0 /\ student
        exceeded == tracked /\ limit - u.unemployment_days <= 0
        days_to_opt_end == g + 365 - t
    IN Row(u.cpt_months_used >= 12, "cpt_overuse", "critical")
       \cup Row(9 <= u.cpt_months_used /\ u.cpt_months_used < 12,
                "cpt_approaching_limit", "warning")
       \cup Row(longterm /\ get_country_category(u.country) \in {"India", "China"},
                "country_backlog", "warning")
       \cup Row(present /\ u.visa_type = "F-1" /\ 0 < g + 60 - t /\ g + 60 - t <= 30,
                "opt_deadline_approaching", "critical")
       \cup Row(present /\ u.visa_type = "F-1" /\ 0 < g - t /\ g - t <= 30,
                "graduation_approaching", "high")
       \cup Row(student /\ ~u.is_stem, "non_stem_limited", "info")
       \cup Row(u.visa_type = "OPT" /\ ~u.currently_employed,
                "unemployment_tracking", "high")
       \cup Row(longterm /\ student, "h1b_lottery_risk", "info")
       \cup Row(exceeded, "unemployment_limit_exceeded", "critical")
       \cup Row(tracked /\ ~exceeded /\ u.unemployment_days >= threshold,
                "unemployment_limit_approaching", "high")
       \cup Row(u.program_extended, "program_extension_i20", "high")
       \cup Row(u.h1b_attempts >= 3, "multiple_h1b_failures", "warning")
       \cup Row(0 < u.h1b_attempts /\ u.h1b_attempts < 3, "h1b_prior_attempts", "info")
       \cup Row(~u.has_job_offer /\ student /\ present
                /\ 0 < days_to_opt_end /\ days_to_opt_end <= 120,
                "no_job_offer_opt_ending",
                IF days_to_opt_end <= 60 THEN "critical" ELSE "high")
       \cup Row(~u.is_stem /\ student /\ longterm, "non_stem_limited_options", "warning")

\* C4: the (risk id, severity) pairs analyze_risks returns are exactly the rows
\* of the section 4.4 table whose condition holds, each once and nothing else.
C4_RisksAreTheTableRows ==
    analyzed =>
        /\ {<<risks[i].type, risks[i].severity>> : i \in RiskIndexes}
               = RiskTable(user_input, today)
        /\ Len(risks) = Cardinality(RiskTable(user_input, today))

\* C4 witness: a returned list where the CPT, unemployment-limit, H-1B attempt
\* and no-job-offer rows all hold, seven alerts or more.
C4_Witness ==
    /\ analyzed
    /\ Len(risks) >= 7
    /\ \E i \in RiskIndexes : risks[i].type = "cpt_approaching_limit"
    /\ \E i \in RiskIndexes : risks[i].type = "unemployment_limit_approaching"
    /\ \E i \in RiskIndexes : risks[i].type = "h1b_prior_attempts"
    /\ \E i \in RiskIndexes :
          risks[i].type = "no_job_offer_opt_ending" /\ risks[i].severity = "high"

HasEvent(id) == \E i \in EventIndexes : events[i].id = id

\* the events generate_timeline adds outside the visa branch
CrossCuttingIds ==
    {"program_extension_notice", "original_graduation", "program_start", "graduation",
     "begin_job_search", "job_search_milestone", "employer_h1b_prep", "green_card_info"}

\* the OPT-dependent events: OPT window, OPT start, STEM OPT, unemployment tracking
OptDependentIds ==
    {"opt_apply_window_open", "opt_apply_deadline", "opt_start",
     "opt_unemployment_warning", "opt_expiration", "stem_opt_apply",
     "stem_opt_expiration", "unemployment_exceeded", "unemployment_critical",
     "unemployment_warning"}

IsOptStemOrH1bId(id) ==
    \/ StartsWith(id, "opt_")
    \/ StartsWith(id, "stem_opt_")
    \/ StartsWith(id, "unemployment_")
    \/ StartsWith(id, "h1b_")

CptMaxedF1 ==
    /\ generated
    /\ user_input.visa_type = "F-1"
    /\ user_input.cpt_months_used >= 12

\* C5 as stated: for any F-1 profile with cpt_months_used >= 12 the returned
\* list contains exactly one event, which is cpt_warning (risk, critical), and
\* no OPT, STEM-OPT or H-1B event.
C5_Original ==
    CptMaxedF1 =>
        /\ Len(events) = 1
        /\ events[1].id = "cpt_warning"
        /\ events[1].type = "risk"
        /\ events[1].urgency = "critical"
        /\ \A i \in EventIndexes : ~IsOptStemOrH1bId(events[i].id)

\* C5 amended: for any F-1 profile with cpt_months_used >= 12 the returned list
\* holds exactly one cpt_warning event (risk, critical, dated today) when
\* expected_graduation is given and none when it is not; every other event is
\* a cross-cutting one, so no OPT, STEM-OPT, unemployment or H-1B lottery event
\* is present.
C5_CptWarningAndCrossCuttingOnly ==
    CptMaxedF1 =>
        /\ Cardinality({i \in EventIndexes : events[i].id = "cpt_warning"})
               = (IF user_input.expected_graduation # <<>> THEN 1 ELSE 0)
        /\ \A i \in EventIndexes :
              IF events[i].id = "cpt_warning"
              THEN /\ events[i].type = "risk"
                   /\ events[i].urgency = "critical"
                   /\ DateOf(events[i]) = today
              ELSE events[i].id \in CrossCuttingIds
        /\ \A i \in EventIndexes : ~IsOptStemOrH1bId(events[i].id)

\* C5 witness: a STEM F-1 profile with 12 months of CPT, a graduation date and
\* the stay_us_longterm goal, whose list holds cpt_warning among four events
\* or more.
C5_Witness ==
    /\ CptMaxedF1
    /\ user_input.is_stem
    /\ user_input.career_goal = "stay_us_longterm"
    /\ user_input.expected_graduation # <<>>
    /\ HasEvent("cpt_warning")
    /\ HasEvent("graduation")
    /\ Len(events) >= 4

\* C6: when cpt_months_used >= 12, whatever the visa_type, generate_timeline
\* emits no OPT-dependent event.
C6_CptAbsorbingForEveryVisa ==
    (generated /\ user_input.cpt_months_used >= 12) =>
        \A i \in EventIndexes : events[i].id \notin OptDependentIds

\* C7: the ids of the events one generate_timeline call returns are pairwise
\* distinct.
C7_EventIdsPairwiseDistinct ==
    generated =>
        \A i \in EventIndexes : \A j \in EventIndexes :
            i # j => events[i].id # events[j].id

\* C8: every returned event has type in {deadline, milestone, risk} and
\* urgency in {critical, high, medium, low, none, passed}.
C8_TypeAndUrgencyInEnums ==
    generated =>
        \A i \in EventIndexes :
            /\ events[i].type \in {"deadline", "milestone", "risk"}
            /\ events[i].urgency \in {"critical", "high", "medium", "low", "none", "passed"}

\* C9: a returned event has urgency passed only if its date is strictly before
\* today, and then is_past is true.
C9_PassedOnlyBeforeToday ==
    generated =>
        \A i \in EventIndexes :
            events[i].urgency = "passed"
                => (DateOf(events[i]) < today /\ events[i].is_past)

\* C9 witness: a list with an event of urgency passed, and an event dated
\* today whose urgency was computed from its date.
C9_Witness ==
    /\ generated
    /\ \E i \in EventIndexes : events[i].urgency = "passed"
    /\ \E i \in EventIndexes :
          /\ DateOf(events[i]) = today
          /\ StartsWith(events[i].id, "h1b_registration_")
          /\ events[i].urgency = "critical"

\* C10: for a profile with is_stem false, whatever its visa_type, opt_status
\* and dates, no returned event has an id starting with stem_opt_.
C10_NoStemOptEventsUnlessStem ==
    (generated /\ ~user_input.is_stem) =>
        \A i \in EventIndexes : ~StartsWith(events[i].id, "stem_opt_")

\* C10 witness: a non-STEM F-1 profile below the CPT limit whose list reaches
\* the OPT expiration step, with no stem_opt_ event after it.
C10_Witness ==
    /\ generated
    /\ ~user_input.is_stem
    /\ user_input.visa_type = "F-1"
    /\ HasEvent("opt_expiration")
    /\ ~HasEvent("stem_opt_apply")
    /\ ~HasEvent("stem_opt_expiration")

IsH1bLotteryId(id) ==
    \/ StartsWith(id, "h1b_registration_")
    \/ StartsWith(id, "h1b_results_")
    \/ StartsWith(id, "h1b_capgap_")
    \/ StartsWith(id, "h1b_start_")
    \/ id = "h1b_alternatives"

\* C11: for a profile with career_goal return_home, generate_timeline returns
\* no green_card_info event and no H-1B lottery event (h1b_registration_,
\* h1b_results_, h1b_capgap_, h1b_start_, h1b_alternatives).
C11_ReturnHomeNoGreenCardNoLottery ==
    (generated /\ user_input.career_goal = "return_home") =>
        \A i \in EventIndexes :
            /\ events[i].id # "green_card_info"
            /\ ~IsH1bLotteryId(events[i].id)

\* C11 witness: a return_home OPT profile with three H-1B attempts whose
\* graduation is within 180 days, so that the lottery would not be suppressed
\* by the graduation date, with a non-empty list.
C11_Witness ==
    /\ generated
    /\ user_input.career_goal = "return_home"
    /\ user_input.visa_type = "OPT"
    /\ user_input.h1b_attempts >= 3
    /\ user_input.expected_graduation # <<>>
    /\ fromisoformat(user_input.expected_graduation) <= today + 180
    /\ HasEvent("graduation")
    /\ Len(events) >= 3

\* C12: with days = deadline - today in whole days, _deadline_urgency returns
\* passed iff days < 0, critical iff 0 <= days <= 7, high iff 8 <= days <= 30,
\* medium iff 31 <= days <= 90 and low iff days > 90.
C12_UrgencyBuckets ==
    result # "pending" =>
        LET days == args[1] - today
        IN /\ (result = "passed") <=> (days < 0)
           /\ (result = "critical") <=> (0 <= days /\ days <= 7)
           /\ (result = "high") <=> (8 <= days /\ days <= 30)
           /\ (result = "medium") <=> (31 <= days /\ days <= 90)
           /\ (result = "low") <=> (days > 90)

\* C12 witness: the call has returned for a deadline on one of the boundary
\* days 7, 30 and 90, which falls in the more urgent bucket.
C12_Witness ==
    /\ result # "pending"
    /\ \/ (args[1] - today = 7 /\ result = "critical")
       \/ (args[1] - today = 30 /\ result = "high")
       \/ (args[1] - today = 90 /\ result = "medium")

\* the number of returned events with the given id
CountId(id) == Cardinality({i \in EventIndexes : events[i].id = id})

\* exactly one returned event has the id, and it has this date and type
OneEvent(id, event_date, event_type) ==
    /\ CountId(id) = 1
    /\ \A i \in EventIndexes :
          events[i].id = id => (DateOf(events[i]) = event_date /\ events[i].type = event_type)

UrgencyOfId(id) == events[CHOOSE i \in EventIndexes : events[i].id = id].urgency

F1BelowCptLimit ==
    /\ generated
    /\ user_input.visa_type = "F-1"
    /\ user_input.expected_graduation # <<>>
    /\ user_input.cpt_months_used < 12

\* C13: for an F-1 profile with expected_graduation G and cpt_months_used < 12
\* the timeline has exactly one opt_start (milestone, G+1), one
\* opt_unemployment_warning (risk, G+61) and one opt_expiration (deadline,
\* critical, G+365); unless opt_status is applied or active also
\* opt_apply_window_open (deadline, G-90) and opt_apply_deadline (deadline,
\* critical, G+60); and stem_opt_apply (G+275) and stem_opt_expiration
\* (critical, G+1095) exactly when is_stem.
C13_F1OptEvents ==
    F1BelowCptLimit =>
        LET G == fromisoformat(user_input.expected_graduation)
        IN /\ OneEvent("opt_start", G + 1, "milestone")
           /\ OneEvent("opt_unemployment_warning", G + 61, "risk")
           /\ OneEvent("opt_expiration", G + 365, "deadline")
           /\ UrgencyOfId("opt_expiration") = "critical"
           /\ user_input.opt_status \notin {"applied", "active"} =>
                 /\ OneEvent("opt_apply_window_open", G - 90, "deadline")
                 /\ OneEvent("opt_apply_deadline", G + 60, "deadline")
                 /\ UrgencyOfId("opt_apply_deadline") = "critical"
           /\ IF user_input.is_stem
              THEN /\ OneEvent("stem_opt_apply", G + 275, "deadline")
                   /\ OneEvent("stem_opt_expiration", G + 1095, "deadline")
                   /\ UrgencyOfId("stem_opt_expiration") = "critical"
              ELSE CountId("stem_opt_apply") = 0 /\ CountId("stem_opt_expiration") = 0

\* C13 witness: a STEM F-1 profile below the CPT limit that has not applied
\* for OPT, whose list holds the application window and both STEM OPT events.
C13_Witness ==
    /\ F1BelowCptLimit
    /\ user_input.is_stem
    /\ user_input.opt_status = "none"
    /\ HasEvent("opt_apply_window_open")
    /\ HasEvent("opt_start")
    /\ HasEvent("stem_opt_apply")
    /\ HasEvent("stem_opt_expiration")

\* exactly one returned event has the id, and it has this date
OneEventDated(id, event_date) ==
    /\ CountId(id) = 1
    /\ \A i \in EventIndexes : events[i].id = id => DateOf(events[i]) = event_date

IsLotteryCycleId(id) ==
    \/ StartsWith(id, "h1b_registration_")
    \/ StartsWith(id, "h1b_results_")
    \/ StartsWith(id, "h1b_capgap_")
    \/ StartsWith(id, "h1b_start_")

\* the profiles whose branch reaches the H-1B lottery step
ReachesLottery ==
    /\ generated
    /\ user_input.career_goal \in {"stay_us_longterm", "undecided"}
    /\ \/ user_input.visa_type = "OPT"
       \/ /\ user_input.visa_type = "F-1"
          /\ user_input.expected_graduation # <<>>
          /\ user_input.cpt_months_used < 12

LotterySuppressed ==
    /\ user_input.expected_graduation # <<>>
    /\ fromisoformat(user_input.expected_graduation) > today + 180

\* the lottery year: the current year when its March 1 is not before today
LotteryYear ==
    LET y == Ord2Ymd(today)[1]
    IN IF Ymd2Ord(y, 3, 1) >= today THEN y ELSE y + 1

\* C14: for an F-1 (graduation present, cpt < 12) or OPT profile with
\* career_goal stay_us_longterm or undecided: when expected_graduation is
\* later than today + 180 days no h1b_ event is emitted; otherwise exactly one
\* lottery cycle is emitted, one each of h1b_registration_Y (March 1),
\* h1b_results_Y (April 1), h1b_capgap_Y (April 1) and h1b_start_Y (October 1)
\* for the lottery year Y, and no cycle event of another year.
C14_OneLotteryCycle ==
    ReachesLottery =>
        IF LotterySuppressed
        THEN \A i \in EventIndexes : ~StartsWith(events[i].id, "h1b_")
        ELSE LET Y == LotteryYear
                 suffix == ToString(Y)
             IN /\ OneEventDated("h1b_registration_" \o suffix, Ymd2Ord(Y, 3, 1))
                /\ OneEventDated("h1b_results_" \o suffix, Ymd2Ord(Y, 4, 1))
                /\ OneEventDated("h1b_capgap_" \o suffix, Ymd2Ord(Y, 4, 1))
                /\ OneEventDated("h1b_start_" \o suffix, Ymd2Ord(Y, 10, 1))
                /\ \A i \in EventIndexes :
                      IsLotteryCycleId(events[i].id) =>
                          events[i].id \in {"h1b_registration_" \o suffix,
                                            "h1b_results_" \o suffix,
                                            "h1b_capgap_" \o suffix,
                                            "h1b_start_" \o suffix}

\* C14 witness: a call made after March 1 for a profile graduating exactly
\* 180 days later, which gets the cycle of the next year.
C14_Witness ==
    /\ ReachesLottery
    /\ user_input.expected_graduation # <<>>
    /\ fromisoformat(user_input.expected_graduation) = today + 180
    /\ LotteryYear = Ord2Ymd(today)[1] + 1
    /\ HasEvent("h1b_registration_2027")
    /\ HasEvent("h1b_start_2027")

HistoryIndexes == 1..Len(history)

\* where a row of the section 4.4 table stands in the returned list: by
\* severity first, by the order of the predicates within one severity
RowKey(row) == 100 * SeverityRank(row[2]) + PredicateOrder(row[1])

\* the rows as a list, least key first
RECURSIVE RowsInOrder(_)
RowsInOrder(rows) ==
    IF rows = {} THEN <<>>
    ELSE LET first == CHOOSE r \in rows : \A q \in rows : RowKey(r) <= RowKey(q)
         IN <<[type |-> first[1], severity |-> first[2]]>> \o RowsInOrder(rows \ {first})

\* the alerts section 4.4 prescribes for profile u on day t, in the order of section 4.5
ExpectedRisks(u, t) == RowsInOrder(RiskTable(u, t))

\* one event as the calls return it: id, date, type, urgency, is_past
Returned(id, event_date, event_type, urgency, is_past) ==
    [id |-> id, date |-> event_date, type |-> event_type, urgency |-> urgency,
     is_past |-> is_past]

\* the lists generate_timeline returns for the call profiles, as obtained by
\* running it with date.today() fixed to 2026-02-20 and to 2026-10-28
ReturnedTimeline(u, t) ==
    CASE u.visa_type = "F-1" /\ u.is_stem = TRUE /\ t = Ymd2Ord(2026, 2, 20) ->
         << Returned("opt_apply_window_open", <<2025, 12, 12>>, "deadline", "passed", TRUE),
            Returned("h1b_alternatives", <<2026, 2, 27>>, "milestone", "high", FALSE),
            Returned("h1b_registration_2026", <<2026, 3, 1>>, "deadline", "high", FALSE),
            Returned("graduation", <<2026, 3, 12>>, "milestone", "high", FALSE),
            Returned("opt_start", <<2026, 3, 13>>, "milestone", "none", FALSE),
            Returned("h1b_results_2026", <<2026, 4, 1>>, "milestone", "medium", FALSE),
            Returned("h1b_capgap_2026", <<2026, 4, 1>>, "milestone", "none", FALSE),
            Returned("opt_apply_deadline", <<2026, 5, 11>>, "deadline", "critical", FALSE),
            Returned("opt_unemployment_warning", <<2026, 5, 12>>, "risk", "high", FALSE),
            Returned("h1b_start_2026", <<2026, 10, 1>>, "milestone", "none", FALSE),
            Returned("stem_opt_apply", <<2026, 12, 12>>, "deadline", "low", FALSE),
            Returned("opt_expiration", <<2027, 3, 12>>, "deadline", "critical", FALSE),
            Returned("green_card_info", <<2028, 3, 11>>, "milestone", "warning", FALSE),
            Returned("stem_opt_expiration", <<2029, 3, 11>>, "deadline", "critical", FALSE) >>
      [] u.visa_type = "F-1" /\ u.is_stem = FALSE /\ t = Ymd2Ord(2026, 2, 20) ->
         << Returned("original_graduation", <<2026, 1, 11>>, "milestone", "none", TRUE),
            Returned("program_extension_notice", <<2026, 2, 20>>, "deadline", "high", FALSE),
            Returned("cpt_warning", <<2026, 2, 20>>, "risk", "critical", FALSE),
            Returned("employer_h1b_prep", <<2026, 3, 6>>, "milestone", "medium", FALSE),
            Returned("graduation", <<2026, 3, 12>>, "milestone", "high", FALSE) >>
      [] u.visa_type = "OPT" /\ u.is_stem = TRUE /\ t = Ymd2Ord(2026, 2, 20) ->
         << Returned("graduation", <<2025, 4, 26>>, "milestone", "passed", TRUE),
            Returned("h1b_registration_2026", <<2026, 3, 1>>, "deadline", "high", FALSE),
            Returned("job_search_milestone", <<2026, 3, 22>>, "milestone", "medium", FALSE),
            Returned("h1b_results_2026", <<2026, 4, 1>>, "milestone", "medium", FALSE),
            Returned("h1b_capgap_2026", <<2026, 4, 1>>, "milestone", "none", FALSE),
            Returned("opt_expiration", <<2026, 4, 26>>, "deadline", "critical", FALSE),
            Returned("h1b_start_2026", <<2026, 10, 1>>, "milestone", "none", FALSE),
            Returned("green_card_info", <<2027, 4, 26>>, "milestone", "warning", FALSE),
            Returned("stem_opt_expiration", <<2028, 4, 25>>, "deadline", "critical", FALSE) >>
      [] u.visa_type = "H-1B" /\ u.is_stem = FALSE /\ t = Ymd2Ord(2026, 2, 20) ->
         << Returned("i140_filing", <<2026, 3, 22>>, "milestone", "medium", FALSE),
            Returned("green_card_info", <<2027, 2, 20>>, "milestone", "warning", FALSE) >>
      [] u.visa_type = "F-1" /\ u.is_stem = TRUE /\ t = Ymd2Ord(2026, 10, 28) ->
         << Returned("opt_apply_window_open", <<2026, 8, 19>>, "deadline", "passed", TRUE),
            Returned("h1b_alternatives", <<2026, 11, 4>>, "milestone", "high", FALSE),
            Returned("graduation", <<2026, 11, 17>>, "milestone", "high", FALSE),
            Returned("opt_start", <<2026, 11, 18>>, "milestone", "none", FALSE),
            Returned("opt_apply_deadline", <<2027, 1, 16>>, "deadline", "critical", FALSE),
            Returned("opt_unemployment_warning", <<2027, 1, 17>>, "risk", "high", FALSE),
            Returned("h1b_registration_2027", <<2027, 3, 1>>, "deadline", "low", FALSE),
            Returned("h1b_results_2027", <<2027, 4, 1>>, "milestone", "medium", FALSE),
            Returned("h1b_capgap_2027", <<2027, 4, 1>>, "milestone", "none", FALSE),
            Returned("stem_opt_apply", <<2027, 8, 19>>, "deadline", "low", FALSE),
            Returned("h1b_start_2027", <<2027, 10, 1>>, "milestone", "none", FALSE),
            Returned("opt_expiration", <<2027, 11, 17>>, "deadline", "critical", FALSE),
            Returned("green_card_info", <<2028, 11, 16>>, "milestone", "warning", FALSE),
            Returned("stem_opt_expiration", <<2029, 11, 16>>, "deadline", "critical", FALSE) >>
      [] u.visa_type = "F-1" /\ u.is_stem = FALSE /\ t = Ymd2Ord(2026, 10, 28) ->
         << Returned("original_graduation", <<2026, 9, 18>>, "milestone", "none", TRUE),
            Returned("program_extension_notice", <<2026, 10, 28>>, "deadline", "high", FALSE),
            Returned("cpt_warning", <<2026, 10, 28>>, "risk", "critical", FALSE),
            Returned("employer_h1b_prep", <<2026, 11, 11>>, "milestone", "medium", FALSE),
            Returned("graduation", <<2026, 11, 17>>, "milestone", "high", FALSE) >>
      [] u.visa_type = "OPT" /\ u.is_stem = TRUE /\ t = Ymd2Ord(2026, 10, 28) ->
         << Returned("graduation", <<2026, 1, 1>>, "milestone", "passed", TRUE),
            Returned("job_search_milestone", <<2026, 11, 27>>, "milestone", "medium", FALSE),
            Returned("opt_expiration", <<2027, 1, 1>>, "deadline", "critical", FALSE),
            Returned("h1b_registration_2027", <<2027, 3, 1>>, "deadline", "low", FALSE),
            Returned("h1b_results_2027", <<2027, 4, 1>>, "milestone", "medium", FALSE),
            Returned("h1b_capgap_2027", <<2027, 4, 1>>, "milestone", "none", FALSE),
            Returned("h1b_start_2027", <<2027, 10, 1>>, "milestone", "none", FALSE),
            Returned("green_card_info", <<2028, 1, 1>>, "milestone", "warning", FALSE),
            Returned("stem_opt_expiration", <<2028, 12, 31>>, "deadline", "critical", FALSE) >>
      [] u.visa_type = "H-1B" /\ u.is_stem = FALSE /\ t = Ymd2Ord(2026, 10, 28) ->
         << Returned("i140_filing", <<2026, 11, 27>>, "milestone", "medium", FALSE),
            Returned("green_card_info", <<2027, 10, 28>>, "milestone", "warning", FALSE) >>

\* C15: for a fixed profile and a fixed today, generate_timeline and
\* analyze_risks return the same output on every call, whatever calls were
\* made before on the same or other profiles: the list generate_timeline
\* returns for that profile and day when it is the only call made, and the
\* alerts of the section 4.4 table for analyze_risks; and no call changes the
\* profile it was passed.
C15_SameCallSameOutput ==
    /\ \A i \in HistoryIndexes :
          history[i].output =
              IF history[i].fn = "generate_timeline"
              THEN ReturnedTimeline(history[i].profile, history[i].day)
              ELSE ExpectedRisks(history[i].profile, history[i].day)
    /\ \A i \in HistoryIndexes : \A j \in HistoryIndexes :
          (/\ history[i].fn = history[j].fn
           /\ history[i].profile = history[j].profile
           /\ history[i].day = history[j].day)
              => history[i].output = history[j].output
    /\ \A i \in HistoryIndexes : history[i].profile_after = history[i].profile

\* C15 witness: the same call made twice on one profile with a call on
\* another profile between them, both with a non-empty output.
C15_Witness ==
    /\ Len(history) = 3
    /\ history[1].fn = "generate_timeline"
    /\ history[3].fn = "generate_timeline"
    /\ history[1].profile = history[3].profile
    /\ history[2].profile # history[1].profile
    /\ history[1].profile.visa_type = "H-1B"
    /\ history[1].output # <<>>
    /\ history[2].output # <<>>

\* C16: what analyze_risks returns does not depend on its timeline_events
\* argument: whatever list it is handed (none, the generator's, a foreign one),
\* the result is the list of alerts the section 4.4 table gives for the profile
\* and the day, and the list handed in is afterwards as it was handed in.
C16_RisksIgnoreTimelineEvents ==
    analyzed =>
        /\ risks = ExpectedRisks(user_input, today)
        /\ events = args[1]

\* C16 witness: analyze_risks has returned alerts after being handed a
\* non-empty list holding a critical upcoming deadline.
C16_Witness ==
    /\ analyzed
    /\ Len(risks) >= 3
    /\ \E i \in EventIndexes :
          /\ events[i].type = "deadline"
          /\ events[i].urgency = "critical"
          /\ ~events[i].is_past

\* the positions of the upcoming deadlines: type deadline and is_past false
UpcomingDeadlines ==
    {i \in EventIndexes : events[i].type = "deadline" /\ ~events[i].is_past}

\* element 0 of the caller's filtered list
FirstUpcoming == CHOOSE i \in UpcomingDeadlines : \A j \in UpcomingDeadlines : i <= j

HasUnrecognizedEnum(u) ==
    \/ u.visa_type \notin {"F-1", "OPT", "H-1B", "H-4", "J-1", "L-1"}
    \/ u.career_goal \notin {"stay_us_longterm", "return_home", "undecided"}
    \/ u.opt_status \notin {"none", "applied", "active", "expired"}

\* C18: when the profile carries an unrecognized visa_type, career_goal or
\* opt_status, generate_timeline and analyze_risks end in an error and return
\* no list: neither call returns normally.
C18_UnrecognizedEnumFailsFast ==
    HasUnrecognizedEnum(user_input) =>
        /\ result.generate_timeline # "returned"
        /\ result.analyze_risks # "returned"
        /\ ~generated
        /\ ~analyzed

\* every date field of the profile is absent or a well-formed ISO date
WellFormedDates(u) ==
    \A s \in {u.program_start, u.expected_graduation, u.original_graduation} :
        s = <<>> \/ IsIsoDate(s)

GraduationRelativeIds ==
    {"graduation", "opt_apply_window_open", "opt_apply_deadline", "opt_start",
     "opt_unemployment_warning", "opt_expiration", "stem_opt_apply",
     "stem_opt_expiration", "begin_job_search", "original_graduation"}

IsF1BranchId(id) ==
    \/ id \in {"cpt_warning", "opt_pending"}
    \/ IsOptStemOrH1bId(id)

\* what C19 says of a profile without expected_graduation: neither call ends
\* in an error, no graduation-relative event is returned, and an F-1 profile
\* gets no event of the F-1 branch
NoGraduationOutcome ==
    /\ result.generate_timeline \in {"pending", "returned"}
    /\ result.analyze_risks \in {"pending", "returned"}
    /\ generated =>
          /\ \A i \in EventIndexes :
                /\ events[i].id \notin GraduationRelativeIds
                /\ ~StartsWith(events[i].id, "stem_opt_")
          /\ user_input.visa_type = "F-1" =>
                \A i \in EventIndexes : ~IsF1BranchId(events[i].id)

\* C19 as written: a missing expected_graduation is not an error: both
\* functions return normally, whatever the rest of the profile; an F-1 profile
\* then gets no event from the F-1 branch, and for every visa type no
\* graduation-relative event is emitted.
C19_Original ==
    user_input.expected_graduation = <<>> => NoGraduationOutcome

\* C19, amended: a missing expected_graduation is not an error when
\* program_start and original_graduation are each absent or a valid ISO date:
\* both functions return normally; an F-1 profile then gets no event from the
\* F-1 branch (no cpt_warning, opt_pending, opt_*, stem_opt_*, unemployment_*,
\* h1b_*), and for every visa type no graduation-relative event is emitted.
C19_MissingGraduationIsNotAnError ==
    (user_input.expected_graduation = <<>> /\ WellFormedDates(user_input)) =>
        NoGraduationOutcome

\* C19 witness: both calls have returned for an F-1 profile with 12 months of
\* CPT, an extended program with an original graduation date and no
\* expected_graduation, with events and alerts in the results.
C19_Witness ==
    /\ user_input.expected_graduation = <<>>
    /\ user_input.visa_type = "F-1"
    /\ user_input.cpt_months_used >= 12
    /\ user_input.original_graduation # <<>>
    /\ user_input.program_start # <<>>
    /\ result.generate_timeline = "returned"
    /\ result.analyze_risks = "returned"
    /\ Len(events) >= 2
    /\ Len(risks) >= 2

\* s is a letter-casing of the lower-case name: same length, and each
\* character is the name's character or its capital
IsCasingOf(s, name) ==
    /\ Len(s) = Len(name)
    /\ \A i \in 1..Len(name) :
          SubSeq(s, i, i) \in {SubSeq(name, i, i), UpperChar(SubSeq(name, i, i))}

\* the category the lookups are to resolve a country name to
ResolvedCategory(country) ==
    IF IsCasingOf(country, "india") THEN "India"
    ELSE IF \/ IsCasingOf(country, "china")
            \/ IsCasingOf(country, "mainland china")
            \/ IsCasingOf(country, "prc")
    THEN "China"
    ELSE "Rest of World"

\* C20: get_country_category returns India for any casing of india, China for
\* any casing of china, mainland china or prc, and Rest of World for every
\* other string; get_green_card_wait returns the table entry of the resolved
\* category for EB-1, EB-2 and EB-3 (India EB-2 = 10, 30, severely_backlogged)
\* and the Rest-of-World EB-2 entry (0, 2, current) for any other EB category.
C20_CountryLookups ==
    LET country == args[1]
        category == args[2]
        wait == result.get_green_card_wait
    IN /\ result.get_country_category # "pending"
          => result.get_country_category = ResolvedCategory(country)
       /\ wait.status # "pending" =>
             /\ category \in {"EB-1", "EB-2", "EB-3"}
                   => wait = EB_WAIT_TIMES(ResolvedCategory(country), category)
             /\ category \notin {"EB-1", "EB-2", "EB-3"}
                   => wait = [wait_years_min |-> 0, wait_years_max |-> 2,
                              status |-> "current"]
             /\ (ResolvedCategory(country) = "India" /\ category = "EB-2")
                   => wait = [wait_years_min |-> 10, wait_years_max |-> 30,
                              status |-> "severely_backlogged"]

\* C20 witness: both lookups have returned for a mixed-case spelling of
\* mainland china and an EB category that is not in the table.
C20_Witness ==
    /\ IsCasingOf(args[1], "mainland china")
    /\ args[1] \notin {"mainland china", "Mainland China"}
    /\ args[2] = "EB-4"
    /\ result.get_country_category = "China"
    /\ result.get_green_card_wait.status = "current"

\* some returned event has the id and this date
HasEventDated(id, event_date) ==
    \E i \in EventIndexes : events[i].id = id /\ DateOf(events[i]) = event_date

\* C21: for every profile with visa_type OPT and expected_graduation G the
\* timeline contains opt_start (G+1), opt_unemployment_warning (G+61) and
\* opt_expiration (critical, G+365) whether or not is_stem holds, also
\* stem_opt_apply (G+275) and stem_opt_expiration (G+1095) when is_stem, and
\* never opt_apply_window_open or opt_apply_deadline.
C21_OptBranchMirrorsF1Steps ==
    (generated /\ user_input.visa_type = "OPT" /\ user_input.expected_graduation # <<>>) =>
        LET G == fromisoformat(user_input.expected_graduation)
        IN /\ HasEventDated("opt_start", G + 1)
           /\ HasEventDated("opt_unemployment_warning", G + 61)
           /\ \E i \in EventIndexes :
                 /\ events[i].id = "opt_expiration"
                 /\ DateOf(events[i]) = G + 365
                 /\ events[i].urgency = "critical"
           /\ user_input.is_stem =>
                 /\ HasEventDated("stem_opt_apply", G + 275)
                 /\ HasEventDated("stem_opt_expiration", G + 1095)
           /\ ~HasEvent("opt_apply_window_open")
           /\ ~HasEvent("opt_apply_deadline")

\* exactly one returned event has the id, dated today, with this urgency
OneEventToday(id, urgency) ==
    /\ CountId(id) = 1
    /\ \A i \in EventIndexes :
          events[i].id = id => (DateOf(events[i]) = today /\ events[i].urgency = urgency)

\* the two paths that run the unemployment tracking for active OPT
ActiveOptTracked ==
    /\ generated
    /\ user_input.opt_status = "active"
    /\ user_input.expected_graduation # <<>>
    /\ \/ user_input.visa_type = "OPT"
       \/ user_input.visa_type = "F-1" /\ user_input.cpt_months_used < 12

\* C22: for a profile with opt_status active and expected_graduation present
\* (visa OPT, or F-1 with cpt_months_used < 12), with limit = 150 if is_stem
\* else 90 and remaining = limit - unemployment_days, the timeline contains
\* unemployment_exceeded (critical) iff remaining <= 0, unemployment_critical
\* (critical) iff 0 < remaining <= 30, unemployment_warning (high) iff
\* 30 < remaining <= 60; at most one of them is present and it is dated today.
C22_UnemploymentTracking ==
    ActiveOptTracked =>
        LET limit == IF user_input.is_stem THEN 150 ELSE 90
            remaining == limit - user_input.unemployment_days
        IN /\ IF remaining <= 0
              THEN OneEventToday("unemployment_exceeded", "critical")
              ELSE ~HasEvent("unemployment_exceeded")
           /\ IF 0 < remaining /\ remaining <= 30
              THEN OneEventToday("unemployment_critical", "critical")
              ELSE ~HasEvent("unemployment_critical")
           /\ IF 30 < remaining /\ remaining <= 60
              THEN OneEventToday("unemployment_warning", "high")
              ELSE ~HasEvent("unemployment_warning")
           /\ CountId("unemployment_exceeded") + CountId("unemployment_critical")
                 + CountId("unemployment_warning") <= 1

\* C22 witness: a STEM F-1 profile on active OPT with 90 unemployment days, for
\* which only the 150-day limit gives unemployment_warning.
C22_Witness ==
    /\ ActiveOptTracked
    /\ user_input.visa_type = "F-1"
    /\ user_input.is_stem
    /\ user_input.unemployment_days = 90
    /\ HasEvent("unemployment_warning")

\* C23: for an F-1 profile with graduation present and cpt_months_used < 12,
\* opt_apply_window_open and opt_apply_deadline are emitted iff opt_status is
\* neither applied nor active, and opt_pending (milestone, medium, dated today)
\* iff opt_status is applied.
C23_OptStatusSuppressesApplication ==
    F1BelowCptLimit =>
        /\ HasEvent("opt_apply_window_open")
              <=> user_input.opt_status \notin {"applied", "active"}
        /\ HasEvent("opt_apply_deadline")
              <=> user_input.opt_status \notin {"applied", "active"}
        /\ HasEvent("opt_pending") <=> user_input.opt_status = "applied"
        /\ \A i \in EventIndexes :
              events[i].id = "opt_pending" =>
                  /\ events[i].type = "milestone"
                  /\ events[i].urgency = "medium"
                  /\ DateOf(events[i]) = today

\* C23 witness: an F-1 profile below the CPT limit whose OPT has expired, with
\* both application events in its list.
C23_Witness ==
    /\ F1BelowCptLimit
    /\ user_input.opt_status = "expired"
    /\ HasEvent("opt_apply_window_open")
    /\ HasEvent("opt_apply_deadline")
    /\ ~HasEvent("opt_pending")

\* C24: for every profile with visa_type F-1 or OPT and has_job_offer false:
\* if opt_status is applied or active the timeline contains
\* job_search_milestone (medium) dated today + 30; otherwise, if graduation is
\* more than 180 days after today, begin_job_search (medium) dated
\* graduation - 180; in every other case, and whenever has_job_offer is true
\* or the visa is not F-1/OPT, it contains neither.
C24_JobSearchMilestones ==
    generated =>
        LET searching == /\ user_input.visa_type \in {"F-1", "OPT"}
                         /\ ~user_input.has_job_offer
            tracked == user_input.opt_status \in {"applied", "active"}
            early == /\ user_input.expected_graduation # <<>>
                     /\ fromisoformat(user_input.expected_graduation) > today + 180
        IN /\ IF searching /\ tracked
              THEN \E i \in EventIndexes :
                      /\ events[i].id = "job_search_milestone"
                      /\ events[i].urgency = "medium"
                      /\ DateOf(events[i]) = today + 30
              ELSE ~HasEvent("job_search_milestone")
           /\ IF searching /\ ~tracked /\ early
              THEN \E i \in EventIndexes :
                      /\ events[i].id = "begin_job_search"
                      /\ events[i].urgency = "medium"
                      /\ DateOf(events[i])
                            = fromisoformat(user_input.expected_graduation) - 180
              ELSE ~HasEvent("begin_job_search")


\* an attempt's outcome is a rate-limit error: 429 in its text, or a ResourceExhausted
IsRateLimitResponse(r) ==
    /\ r.kind = "exception"
    /\ Contains(r.text, "429") \/ r.class = "ResourceExhausted"

\* an attempt's outcome is a response that passes _validate_response
IsValidResponse(r, today_) ==
    /\ r.kind = "json"
    /\ _validate_response(r.data, today_) # NoneObject

\* C25: generate_ai_timeline makes at most MAX_RETRIES attempts and is over once
\* the last of them has come back; it returns only the validated form of the
\* first response that validates; an invalid response or an error that is not a
\* rate-limit error is followed by another attempt while one is left; a
\* rate-limit error is followed by none; and a call none of whose attempts
\* validated ends in RuntimeError with no result.
C25_AiRetries ==
    ai_call # <<>> =>
        LET rs == ai_call.responses
            n == Len(rs)
        IN /\ ai_call.attempt \in 1..MAX_RETRIES
           /\ n <= MAX_RETRIES
           /\ ai_call.status = "running" => ai_call.attempt = n + 1
           /\ ai_call.status # "running" => ai_call.attempt = n
           /\ ai_call.status = "returned" =>
                 /\ IsValidResponse(rs[n], today)
                 /\ ai_call.result = _validate_response(rs[n].data, today)
                 /\ ai_call.result.timeline_events # <<>>
           /\ \A i \in 1..n :
                 /\ IsValidResponse(rs[i], today) => (i = n /\ ai_call.status = "returned")
                 /\ IsRateLimitResponse(rs[i]) => (i = n /\ ai_call.status = "RuntimeError")
                 /\ (~IsValidResponse(rs[i], today) /\ ~IsRateLimitResponse(rs[i]) /\ i < MAX_RETRIES)
                       => ai_call.attempt > i
           /\ ai_call.status = "RuntimeError" =>
                 /\ ai_call.result = NoneObject
                 /\ \A i \in 1..n : ~IsValidResponse(rs[i], today)
                 /\ n = MAX_RETRIES \/ IsRateLimitResponse(rs[n])

\* a ResourceExhausted error on the first attempt ended the call
C25_Witness ==
    /\ ai_call # <<>>
    /\ ai_call.status = "RuntimeError"
    /\ ai_call.attempt = 1
    /\ ai_call.responses[1].kind = "exception"
    /\ ai_call.responses[1].class = "ResourceExhausted"

\* a call returned on its second attempt, after an invalid response
C25_WitnessRetry ==
    /\ ai_call # <<>>
    /\ ai_call.status = "returned"
    /\ ai_call.attempt = 2
    /\ ai_call.responses[1].kind = "json"


\* the requests recorded in the 24 hours before now
RecordedInWindow ==
    Cardinality({i \in DOMAIN ai_hits : ai_hits[i] > now - WINDOW_SECONDS})

\* the cooldown of the latest mark_exhausted call is running
InCooldown ==
    /\ ai_marks # <<>>
    /\ now < ai_marks[Len(ai_marks)].at + ai_marks[Len(ai_marks)].cooldown_seconds

\* a get_ai_rate_status or check_ai_rate_limit call is made in this step
StatusCall(name) ==
    /\ ai_status' # ai_status
    /\ ai_status'.call = name

\* the cooldown of the k-th mark_exhausted call, whichever calls followed it,
\* is running
InCooldownOf(k) == now < ai_marks[k].at + ai_marks[k].cooldown_seconds

\* C26 as written: after every mark_exhausted(c) call, made at t, a
\* check_ai_rate_limit made before t + c raises and a get_ai_rate_status made
\* then reports allowed false and remaining 0.
C26_Original ==
    [][\A k \in DOMAIN ai_marks :
          /\ (StatusCall("check_ai_rate_limit") /\ InCooldownOf(k)) => ai_status'.raised
          /\ (StatusCall("get_ai_rate_status") /\ InCooldownOf(k)) =>
                 (~ai_status'.status.allowed /\ ai_status'.status.remaining = 0)
      ]_vars

\* C26, amended: the cooldown runs from the latest mark_exhausted(c) call, made
\* at t, to t + c, whatever cooldown an earlier call asked for.  A
\* check_ai_rate_limit made before t + c raises and a get_ai_rate_status made
\* then reports allowed false and remaining 0; a check made at or after t + c,
\* with fewer than DAILY_LIMIT requests recorded in the last 24 hours, passes.
C26_Cooldown ==
    [][/\ (StatusCall("check_ai_rate_limit") /\ InCooldown) => ai_status'.raised
       /\ (StatusCall("get_ai_rate_status") /\ InCooldown) =>
              (~ai_status'.status.allowed /\ ai_status'.status.remaining = 0)
       /\ (StatusCall("check_ai_rate_limit") /\ ~InCooldown /\ RecordedInWindow < DAILY_LIMIT)
              => ~ai_status'.raised
      ]_vars

\* a check passes at the very second the latest cooldown ends, after a second
\* mark that cut the cooldown of the first short
C26_Witness ==
    /\ Len(ai_marks) = 2
    /\ ai_marks[2].at + ai_marks[2].cooldown_seconds
           < ai_marks[1].at + ai_marks[1].cooldown_seconds
    /\ ai_status # <<>>
    /\ ai_status.call = "check_ai_rate_limit"
    /\ ~ai_status.raised
    /\ ai_status.at = ai_marks[2].at + ai_marks[2].cooldown_seconds
    /\ ai_marks[2].at > ai_marks[1].at


\* the requests of a user that were answered 200
Granted(user_id) ==
    {r \in DOMAIN requests : /\ requests[r].pc = "done"
                             /\ requests[r].user_id = user_id
                             /\ requests[r].status_code = 200}

\* C27: whatever the order and the interleaving of the create_timeline requests of a
\* user, at most CREDIT_LIMIT of them are answered with a generated timeline, the
\* user is charged at most CREDIT_LIMIT credits, and a request that starts when the
\* user has been charged CREDIT_LIMIT credits is answered 429 without a generation.
C27_CreditCap ==
    /\ \A user_id \in DOMAIN credit_calls :
          /\ credit_calls[user_id] <= CREDIT_LIMIT
          /\ Cardinality(Granted(user_id)) <= CREDIT_LIMIT
    /\ \A r \in DOMAIN requests :
          (requests[r].pc # "new" /\ requests[r].calls_at_start >= CREDIT_LIMIT) =>
              /\ requests[r].pc = "done"
              /\ requests[r].status_code = 429
              /\ requests[r].generation = "none"


\* a request gets its response in this step, its generation having ended
Finishing(r) ==
    /\ requests[r].pc = "generating"
    /\ requests'[r].pc = "done"

\* a request arrives in this step and runs to its first await or its rejection
Starting(r) ==
    /\ requests[r].pc = "new"
    /\ requests'[r].pc # "new"

\* the text mentions a rate limit or 429
MentionsRateLimit(text) ==
    \/ \E i \in 1..(Len(text) - 9) : lower(SubSeq(text, i, i + 9)) = "rate limit"
    \/ \E i \in 1..(Len(text) - 2) : SubSeq(text, i, i + 2) = "429"

C28_WitnessBadGateway ==
    \E r \in DOMAIN requests :
        /\ requests[r].pc = "done"
        /\ requests[r].status_code = 502
        /\ requests[r].generation = "Timeline generation failed: Quota exceeded"

\* a generation returned and the charge raised: 502, the request logged, no credit
C28_WitnessIncrementRaised ==
    \E r \in DOMAIN requests :
        /\ requests[r].pc = "done"
        /\ requests[r].status_code = 502
        /\ requests[r].generation = "returned"
        /\ requests[r].increment = "no such column: credits_used"
        /\ credit_calls[requests[r].user_id] = requests[r].calls_at_start
        /\ Len(ai_hits) = 1

\* a generation returned and the user was charged: 200, one request logged
C28_WitnessCharged ==
    \E r \in DOMAIN requests :
        /\ requests[r].pc = "done"
        /\ requests[r].status_code = 200
        /\ requests[r].generation = "returned"
        /\ credit_calls[requests[r].user_id] = requests[r].calls_at_start + 1
        /\ Len(ai_hits) = 1


\* how many of the first n calls of an IP were accepted in the 60 seconds up to t
AcceptedWithin(ip, n, t) ==
    Cardinality({j \in 1..n : /\ auth_calls[ip][j].accepted
                              /\ auth_calls[ip][j].at > t - AUTH_WINDOW_SECONDS
                              /\ auth_calls[ip][j].at <= t})

\* the accepted calls of an IP, as the times the limiter keeps after its last call
KeptTimes(ip) ==
    LET calls == auth_calls[ip]
        accepted == SelectSeq(calls, LAMBDA c : c.accepted)
        last == calls[Len(calls)].at
    IN SelectSeq([j \in 1..Len(accepted) |-> accepted[j].at],
                 LAMBDA t : t > last - AUTH_WINDOW_SECONDS)

\* C29: for every client IP, whatever the calls of the other IPs, a call is
\* rejected exactly when MAX_REQUESTS accepted calls of that IP lie in the 60
\* seconds before it (the times t with now - 60 < t <= now), so no such window
\* holds more than MAX_REQUESTS accepted calls; and the limiter stores the times of
\* the accepted calls only: a rejected call leaves no timestamp.
C29_AuthRateLimit ==
    \A ip \in ClientIps :
        LET calls == auth_calls[ip] IN
        /\ \A i \in 1..Len(calls) :
              /\ calls[i].accepted <=> AcceptedWithin(ip, i - 1, calls[i].at) < MAX_REQUESTS
              /\ AcceptedWithin(ip, i, calls[i].at) <= MAX_REQUESTS
        /\ calls # <<>> => auth_hits[ip] = KeptTimes(ip)
        /\ calls = <<>> => auth_hits[ip] = <<>>

\* an IP was turned away at the limit and let in again once its window had moved on,
\* while the other IP was let in at the time of the rejection
C29_Witness ==
    \E ip \in ClientIps, other \in ClientIps :
        /\ ip # other
        /\ \E i \in 1..Len(auth_calls[ip]), k \in 1..Len(auth_calls[ip]) :
              /\ i < k
              /\ ~auth_calls[ip][i].accepted
              /\ auth_calls[ip][k].accepted
              /\ \E j \in 1..Len(auth_calls[other]) :
                    /\ auth_calls[other][j].accepted
                    /\ auth_calls[other][j].at = auth_calls[ip][i].at


\* the risk list holds an alert of this type
HasAlert(type) == \E i \in DOMAIN risks : risks[i].type = type

\* C30: for a profile with opt_status active and expected_graduation present (visa
\* OPT, or F-1 with cpt_months_used < 12), once generate_timeline and analyze_risks
\* have both run on it with the same today, the timeline contains
\* unemployment_exceeded iff the risk list contains unemployment_limit_exceeded,
\* and unemployment_critical iff it contains unemployment_limit_approaching; with
\* unemployment_warning in the timeline the risk list holds neither alert.
C30_TrackingAgreement ==
    (ActiveOptTracked /\ analyzed) =>
        /\ HasEvent("unemployment_exceeded") <=> HasAlert("unemployment_limit_exceeded")
        /\ HasEvent("unemployment_critical") <=> HasAlert("unemployment_limit_approaching")
        /\ HasEvent("unemployment_warning") =>
              /\ ~HasAlert("unemployment_limit_exceeded")
              /\ ~HasAlert("unemployment_limit_approaching")

\* a STEM profile at 120 unemployment days: critical in the timeline, approaching
\* in the risk list
C30_Witness ==
    /\ ActiveOptTracked
    /\ analyzed
    /\ user_input.is_stem
    /\ user_input.unemployment_days = 120
    /\ HasEvent("unemployment_critical")
    /\ HasAlert("unemployment_limit_approaching")

=============================================================================
